---- MODULE Spec2Model ----
(***************************************************************************)
(* ModuleForge backend: the World / Entry / EntryRelationship / LoreArticle *)
(* / TimelineEvent tables and the REST handlers that read and write them.   *)
(*                                                                          *)
(* Every handler is one action (its whole body), except the two handlers    *)
(* whose check-then-insert gap is itself under study: Entry Create and      *)
(* Relationship Create are split at their database calls (Begin = the       *)
(* reads and validations, Commit = the insert).  Read-only handlers are     *)
(* operators over the tables that return the response the handler sends.    *)
(*                                                                          *)
(* Strings that the code trims, measures or searches are sequences of       *)
(* one-character strings; an absent JSON field is the value Undefined.      *)
(* Columns the handlers under study never branch on (content,               *)
(* coverImageUrl, visibility, createdAt, updatedAt) are not stored.         *)
(***************************************************************************)
EXTENDS Integers, Sequences, FiniteSets, TLC

\* ------------------------------------------------------------------ bounds
NumUsers == 2
MaxWorlds == 2
MaxEntries == 3
MaxRels == 3
MaxLore == 2
MaxEvents == 2
MaxNow == 2
MaxPending == 2
MaxPendingBulk == 1
MaxBulk == 2
MaxRows == 45
MaxCustomFields == 1
MaxAccounts == 2
MaxEdges == 2
MaxDeletedIds == 1

\* ------------------------------------------------------- program constants
TITLE_MAX == 100
DESCRIPTION_MAX == 500
LIMIT_MAX == 50
LIMIT_DEFAULT == 20
SEARCH_TAKE == 10

VALID_ENTRY_TYPES == <<"character", "location", "item", "faction", "custom">>

VALID_TYPES ==
    <<"related", "parent", "child", "allies", "enemies", "located_in",
      "belongs_to", "owns", "created", "member_of">>

NoOptions == <<>>

DEFAULT_METADATA(type) ==
    CASE type = "character" ->
           << [id |-> "age", name |-> "Age", type |-> "number", value |-> "", options |-> NoOptions],
              [id |-> "species", name |-> "Species", type |-> "text", value |-> "", options |-> NoOptions],
              [id |-> "status", name |-> "Status", type |-> "dropdown", value |-> "",
               options |-> <<"Alive", "Dead", "Unknown">>] >>
      [] type = "location" ->
           << [id |-> "region", name |-> "Region", type |-> "text", value |-> "", options |-> NoOptions],
              [id |-> "climate", name |-> "Climate", type |-> "dropdown", value |-> "",
               options |-> <<"Tropical", "Arid", "Temperate", "Cold", "Polar">>],
              [id |-> "population", name |-> "Population", type |-> "text", value |-> "", options |-> NoOptions] >>
      [] type = "item" ->
           << [id |-> "rarity", name |-> "Rarity", type |-> "dropdown", value |-> "",
               options |-> <<"Common", "Uncommon", "Rare", "Legendary">>],
              [id |-> "origin", name |-> "Origin", type |-> "text", value |-> "", options |-> NoOptions] >>
      [] type = "faction" ->
           << [id |-> "alignment", name |-> "Alignment", type |-> "dropdown", value |-> "",
               options |-> <<"Good", "Neutral", "Evil">>],
              [id |-> "leader", name |-> "Leader", type |-> "text", value |-> "", options |-> NoOptions] >>
      [] type = "custom" ->
           << [id |-> "notes", name |-> "Notes", type |-> "text", value |-> "", options |-> NoOptions] >>
      [] OTHER -> <<>>

\* ------------------------------------------------------------------- state
VARIABLES
    worlds,     \* World table:  id -> [ownerId, title, description, deletedAt]
    entries,    \* Entry table:  id -> [worldId, type, title, description, metadata, deletedAt]
    rels,       \* EntryRelationship table: id -> [sourceId, targetId, worldId, label, type]
    nextRel,    \* ids of EntryRelationship rows handed out so far (rows are hard-deleted)
    lore,       \* LoreArticle table: id -> [worldId, title, deletedAt]
    events,     \* TimelineEvent table: id -> [worldId, title, date, deletedAt]
    now,        \* the wall clock read by new Date()
    pending,    \* requests between their last read and their insert
    resp,       \* the response sent by the handler that ran last
    users,      \* User table: id -> [email, passwordHash, displayName, resetToken, resetTokenExpiry]
    editor      \* the state of the relationship map component open in a browser

vars == <<worlds, entries, rels, nextRel, lore, events, now, pending, resp, users, editor>>

Users == 1..NumUsers
WorldIds == 1..MaxWorlds
EntryIds == 1..MaxEntries
LoreIds == 1..MaxLore
EventIds == 1..MaxEvents

\* deletedAt: null
NullT == 0

\* an absent JSON field / query parameter, and JSON null, among character sequences
Undefined == <<"undefined">>
Null == <<"null">>

\* label values (never inspected character by character)
LabelUndefined == "<undefined>"
LabelNull == "<null>"

EmptyFn == [x \in {} |-> 0]

Min(a, b) == IF a < b THEN a ELSE b
Max(a, b) == IF a > b THEN a ELSE b

Includes(seq, x) == \E i \in 1..Len(seq) : seq[i] = x

RECURSIVE TrimLeft(_)
TrimLeft(s) == IF Len(s) > 0 /\ Head(s) = " " THEN TrimLeft(Tail(s)) ELSE s

RECURSIVE TrimRight(_)
TrimRight(s) ==
    IF Len(s) > 0 /\ s[Len(s)] = " " THEN TrimRight(SubSeq(s, 1, Len(s) - 1)) ELSE s

\* String.prototype.trim
Trim_LeftOnly(s) == TrimLeft(s)

Trim(s) == TrimRight(TrimLeft(s))

ToLower(c) == CASE c = "A" -> "a" [] c = "B" -> "b" [] OTHER -> c

LowerSeq(s) == [i \in 1..Len(s) |-> ToLower(s[i])]

\* { contains: q, mode: 'insensitive' }
ContainsInsensitive(s, q) ==
    \E i \in 0..(Len(s) - Len(q)) :
        LowerSeq(SubSeq(s, i + 1, i + Len(q))) = LowerSeq(q)

\* orderBy: { updatedAt: 'desc' }. updatedAt is not stored: the rows of S (ids up to
\* top) are listed by id, largest first
RECURSIVE SortDesc(_, _)
SortDesc(S, top) ==
    IF top = 0 THEN <<>>
    ELSE IF top \in S THEN <<top>> \o SortDesc(S, top - 1)
    ELSE SortDesc(S, top - 1)

Resp(op, status, body) == [op |-> op, status |-> status, body |-> body]
NoBody == <<>>

\* parseInt(req.query.x) || dflt : the parameter is <<>> (absent or not a number) or <<n>>
ParseIntOr(q, dflt) == IF q = <<>> \/ q[1] = 0 THEN dflt ELSE q[1]

\* Math.ceil(total / limit)
CeilDiv_Floor(total, limit) == total \div limit

CeilDiv(total, limit) == (total + limit - 1) \div limit

\* findMany({ skip, take }) over the ordered rows
SkipTake(rows, skip, take) ==
    IF skip >= Len(rows) THEN <<>>
    ELSE SubSeq(rows, skip + 1, Min(Len(rows), skip + take))

\* ------------------------------------------------------------------ guards
OK == 200
CREATED == 201
BAD_REQUEST == 400
FORBIDDEN == 403
NOT_FOUND == 404
UNAUTHORIZED == 401
SERVER_ERROR == 500

IsAliveWorld(w) == w \in DOMAIN worlds /\ worlds[w].deletedAt = NullT

\* entry.routes.ts validateWorldOwnership: the status it reports (200 = valid)
validateWorldOwnership_IgnoresDeletedAt(worldId, userId) ==
    IF worldId \notin DOMAIN worlds THEN NOT_FOUND
    ELSE IF worldId \in DOMAIN worlds /\ worlds[worldId].ownerId # userId THEN FORBIDDEN
    ELSE OK

validateWorldOwnership(worldId, userId) ==
    IF worldId \notin DOMAIN worlds \/ worlds[worldId].deletedAt # NullT THEN NOT_FOUND
    ELSE IF worldId \in DOMAIN worlds /\ worlds[worldId].ownerId # userId THEN FORBIDDEN
    ELSE OK

WorldRouteGuard_IgnoresDeletedAt(id, userId) ==
    IF id \notin DOMAIN worlds THEN NOT_FOUND
    ELSE IF worlds[id].ownerId # userId THEN FORBIDDEN
    ELSE OK

\* world.routes.ts: the lookup each of GET/PATCH/DELETE /:id starts with
WorldRouteGuard(id, userId) ==
    IF id \notin DOMAIN worlds \/ worlds[id].deletedAt # NullT THEN NOT_FOUND
    ELSE IF worlds[id].ownerId # userId THEN FORBIDDEN
    ELSE OK

\* relationship.routes.ts verifyWorldOwnership: findFirst({id, ownerId, deletedAt: null});
\* TRUE when a world is returned
verifyWorldOwnership(worldId, userId) ==
    /\ worldId \in DOMAIN worlds
    /\ worlds[worldId].ownerId = userId
    /\ worlds[worldId].deletedAt = NullT

\* lore.routes.ts: the findFirst every lore handler runs
LoreWorldCheck(worldId, userId) ==
    /\ worldId \in DOMAIN worlds
    /\ worlds[worldId].ownerId = userId
    /\ worlds[worldId].deletedAt = NullT

\* timeline.routes.ts: the findFirst every timeline handler runs
TimelineWorldCheck(worldId, userId) ==
    /\ worldId \in DOMAIN worlds
    /\ worlds[worldId].ownerId = userId
    /\ worlds[worldId].deletedAt = NullT

\* --------------------------------------------------------- title validation
\* POST: !title || typeof title !== 'string', then the trimmed length
CreateTitleStatus(title) ==
    IF title = Undefined \/ title = Null \/ title = <<>> THEN BAD_REQUEST
    ELSE IF Len(Trim(title)) = 0 \/ Len(Trim(title)) > TITLE_MAX THEN BAD_REQUEST
    ELSE OK

\* PATCH: only when title !== undefined
PatchTitleStatus(title) ==
    IF title = Undefined THEN OK
    ELSE IF title = Null THEN BAD_REQUEST
    ELSE IF Len(Trim(title)) = 0 \/ Len(Trim(title)) > TITLE_MAX THEN BAD_REQUEST
    ELSE OK

\* description && description.length > 500
DescriptionStatus(description) ==
    IF description \in {Undefined, Null, <<>>} THEN OK
    ELSE IF Len(description) > DESCRIPTION_MAX THEN BAD_REQUEST
    ELSE OK

\* description?.trim() || null
StoredDescription(description) ==
    IF description \in {Undefined, Null} THEN Null
    ELSE IF Trim(description) = <<>> THEN Null
    ELSE Trim(description)

\* the ids a table has handed out are 1..n; the next insert gets n + 1
NewId(table) == Cardinality(DOMAIN table) + 1

\* ============================================================ World routes
\* ---- POST /api/worlds
WorldCreateStatus(title, description) ==
    IF CreateTitleStatus(title) # OK THEN BAD_REQUEST
    ELSE DescriptionStatus(description)

WorldCreate(u, title, description) ==
    /\ IF WorldCreateStatus(title, description) # OK
       THEN /\ resp' = Resp("WorldCreate", BAD_REQUEST, NoBody)
            /\ UNCHANGED worlds
       ELSE /\ NewId(worlds) \in WorldIds
            /\ worlds' = worlds @@ (NewId(worlds) :>
                   [ownerId |-> u, title |-> Trim(title),
                    description |-> StoredDescription(description), deletedAt |-> NullT])
            /\ resp' = Resp("WorldCreate", CREATED, <<NewId(worlds)>>)
    /\ UNCHANGED <<entries, rels, nextRel, lore, events, now, pending, users, editor>>

\* ---- GET /api/worlds
WorldListWhere(u, search) ==
    { w \in DOMAIN worlds :
        /\ worlds[w].ownerId = u
        /\ worlds[w].deletedAt = NullT
        /\ (search # Undefined /\ search # <<>>) => ContainsInsensitive(worlds[w].title, search) }

AliveEntriesOf(w) == { e \in DOMAIN entries : entries[e].worldId = w /\ entries[e].deletedAt = NullT }

WorldListResp(u, search, pageQ, limitQ) ==
    LET page == Max(1, ParseIntOr(pageQ, 1))
        limit == Min(LIMIT_MAX, Max(1, ParseIntOr(limitQ, LIMIT_DEFAULT)))
        skip == (page - 1) * limit
        rows == SortDesc(WorldListWhere(u, search), Cardinality(DOMAIN worlds))
        items == SkipTake(rows, skip, limit)
        total == Cardinality(WorldListWhere(u, search))
    IN  [status |-> OK,
         items |-> items,
         entryCount |-> [i \in 1..Len(items) |-> Cardinality(AliveEntriesOf(items[i]))],
         total |-> total,
         page |-> page,
         totalPages |-> CeilDiv(total, limit)]

WorldList(u, search, pageQ, limitQ) ==
    /\ LET r == WorldListResp(u, search, pageQ, limitQ)
       IN  resp' = Resp("WorldList", r.status, <<Len(r.items), r.total, r.page, r.totalPages>>)
    /\ UNCHANGED <<worlds, entries, rels, nextRel, lore, events, now, pending, users, editor>>

\* ---- GET /api/worlds/:id
WorldGetResp(u, id) ==
    IF WorldRouteGuard(id, u) # OK
    THEN [status |-> WorldRouteGuard(id, u), items |-> <<>>, entryCounts |-> EmptyFn]
    ELSE LET types == { entries[e].type : e \in AliveEntriesOf(id) }
         IN  [status |-> OK,
              items |-> <<id>>,
              entryCounts |-> [t \in types |->
                  Cardinality({ e \in AliveEntriesOf(id) : entries[e].type = t })]]

\* ---- PATCH /api/worlds/:id
WorldUpdateStatus(u, id, title, description) ==
    IF WorldRouteGuard(id, u) # OK THEN WorldRouteGuard(id, u)
    ELSE IF PatchTitleStatus(title) # OK THEN BAD_REQUEST
    ELSE DescriptionStatus(description)

\* updateData holds the fields the body carries; prisma.world.update writes them
WorldUpdate(u, id, title, description) ==
    /\ resp' = Resp("WorldUpdate", WorldUpdateStatus(u, id, title, description), NoBody)
    /\ worlds' =
         IF WorldUpdateStatus(u, id, title, description) = OK
         THEN [worlds EXCEPT ![id] =
                 [@ EXCEPT !.title = IF title = Undefined THEN @ ELSE Trim(title),
                           !.description = IF description = Undefined THEN @
                                           ELSE StoredDescription(description)]]
         ELSE worlds
    /\ UNCHANGED <<entries, rels, nextRel, lore, events, now, pending, users, editor>>

\* ---- DELETE /api/worlds/:id
\* the $transaction: entry.updateMany({where: {worldId}}) then world.update; each
\* statement evaluates its own new Date(), `tick` later for the second one
WorldDeleteTransaction(id, tick) ==
    /\ entries' = [e \in DOMAIN entries |->
                     IF entries[e].worldId = id
                     THEN [entries[e] EXCEPT !.deletedAt = now]
                     ELSE entries[e]]
    /\ worlds' = [worlds EXCEPT ![id].deletedAt = now + tick]
    /\ now' = now + tick

WorldDeleteStatus(u, id) == WorldRouteGuard(id, u)

WorldDelete(u, id, tick) ==
    /\ now + tick <= MaxNow
    /\ resp' = Resp("WorldDelete", WorldDeleteStatus(u, id), NoBody)
    /\ IF WorldDeleteStatus(u, id) = OK
       THEN WorldDeleteTransaction(id, tick)
       ELSE tick = 0 /\ UNCHANGED <<worlds, entries, now>>
    /\ UNCHANGED <<rels, nextRel, lore, events, pending, users, editor>>

\* ============================================================ Entry routes
\* a request that has done its reads and not yet its insert
PendingReq(op, u, w, type, title, description, sourceId, targetId, label) ==
    [op |-> op, user |-> u, worldId |-> w, type |-> type, title |-> title,
     description |-> description, sourceId |-> sourceId, targetId |-> targetId, label |-> label]

PendingEntryCreates == { r \in pending : r.op = "EntryCreate" }

\* ---- POST /api/worlds/:worldId/entries
EntryCreateStatus_NoTypeCheck(u, worldId, type, title, description) ==
    IF validateWorldOwnership(worldId, u) # OK THEN validateWorldOwnership(worldId, u)
    ELSE IF CreateTitleStatus(title) # OK THEN BAD_REQUEST
    ELSE DescriptionStatus(description)

EntryCreateStatus(u, worldId, type, title, description) ==
    IF validateWorldOwnership(worldId, u) # OK THEN validateWorldOwnership(worldId, u)
    ELSE IF type \in {"", "<undefined>"} \/ ~Includes(VALID_ENTRY_TYPES, type) THEN BAD_REQUEST
    ELSE IF CreateTitleStatus(title) # OK THEN BAD_REQUEST
    ELSE DescriptionStatus(description)

\* the data of prisma.entry.create
NewEntryRow_NoDefaults(worldId, type, title, description) ==
    [worldId |-> worldId, type |-> type, title |-> Trim(title),
     description |-> StoredDescription(description),
     metadata |-> <<>>, deletedAt |-> NullT]

NewEntryRow(worldId, type, title, description) ==
    [worldId |-> worldId, type |-> type, title |-> Trim(title),
     description |-> StoredDescription(description),
     metadata |-> DEFAULT_METADATA(type), deletedAt |-> NullT]

\* the ownership lookup and the validations; on success the handler awaits the insert
EntryCreateBegin(u, worldId, type, title, description) ==
    /\ IF EntryCreateStatus(u, worldId, type, title, description) # OK
       THEN /\ resp' = Resp("EntryCreate",
                           EntryCreateStatus(u, worldId, type, title, description), NoBody)
            /\ UNCHANGED pending
       ELSE /\ Cardinality(PendingEntryCreates) < MaxPending
            /\ Cardinality(DOMAIN entries) + Cardinality(PendingEntryCreates) < MaxEntries
            /\ pending' = pending \cup
                 {PendingReq("EntryCreate", u, worldId, type, title, description,
                             0, 0, LabelUndefined)}
            /\ UNCHANGED resp
    /\ UNCHANGED <<worlds, entries, rels, nextRel, lore, events, now, users, editor>>

\* prisma.entry.create and the 201 response
EntryCreateCommit(req) ==
    /\ req \in PendingEntryCreates
    /\ pending' = pending \ {req}
    /\ entries' = entries @@ (NewId(entries) :> NewEntryRow(req.worldId, req.type, req.title, req.description))
    \* res.status(201).json(entry)
    /\ resp' = Resp("EntryCreate", CREATED,
                    <<NewId(entries), NewEntryRow(req.worldId, req.type, req.title, req.description)>>)
    /\ UNCHANGED <<worlds, rels, nextRel, lore, events, now, users, editor>>

\* ---- GET /api/worlds/:worldId/entries
EntryListWhere(worldId, type, search) ==
    { e \in DOMAIN entries :
        /\ entries[e].worldId = worldId
        /\ entries[e].deletedAt = NullT
        /\ (type # "" /\ Includes(VALID_ENTRY_TYPES, type)) => entries[e].type = type
        /\ (search # Undefined /\ search # <<>>) => ContainsInsensitive(entries[e].title, search) }

EntryListResp(u, worldId, type, search, pageQ, limitQ) ==
    IF validateWorldOwnership(worldId, u) # OK
    THEN [status |-> validateWorldOwnership(worldId, u), items |-> <<>>,
          total |-> 0, page |-> 0, totalPages |-> 0]
    ELSE LET page == Max(1, ParseIntOr(pageQ, 1))
             limit == Min(LIMIT_MAX, Max(1, ParseIntOr(limitQ, LIMIT_DEFAULT)))
             skip == (page - 1) * limit
             rows == SortDesc(EntryListWhere(worldId, type, search), Cardinality(DOMAIN entries))
         IN  [status |-> OK,
              items |-> SkipTake(rows, skip, limit),
              total |-> Cardinality(EntryListWhere(worldId, type, search)),
              page |-> page,
              totalPages |-> CeilDiv(Cardinality(EntryListWhere(worldId, type, search)), limit)]

EntryList(u, worldId, type, search, pageQ, limitQ) ==
    /\ LET r == EntryListResp(u, worldId, type, search, pageQ, limitQ)
       IN  resp' = Resp("EntryList", r.status, <<Len(r.items), r.total, r.page, r.totalPages>>)
    /\ UNCHANGED <<worlds, entries, rels, nextRel, lore, events, now, pending, users, editor>>

\* ---- GET /api/worlds/:worldId/entries/search
CharRank(c) == CASE c = " " -> 0 [] c = "A" -> 1 [] c = "B" -> 2 [] c = "a" -> 3 [] c = "b" -> 4 [] OTHER -> 5

RECURSIVE TitleLess(_, _)
TitleLess(a, b) ==
    IF Len(b) = 0 THEN FALSE
    ELSE IF Len(a) = 0 THEN TRUE
    ELSE IF CharRank(Head(a)) # CharRank(Head(b)) THEN CharRank(Head(a)) < CharRank(Head(b))
    ELSE TitleLess(Tail(a), Tail(b))

\* orderBy: { title: 'asc' }
RECURSIVE SortByTitle(_)
SortByTitle(S) ==
    IF S = {} THEN <<>>
    ELSE LET m == CHOOSE x \in S : \A y \in S \ {x} :
                     \/ TitleLess(entries[x].title, entries[y].title)
                     \/ (~TitleLess(entries[y].title, entries[x].title) /\ x < y)
         IN  <<m>> \o SortByTitle(S \ {m})

EntrySearchResp(u, worldId, q) ==
    IF validateWorldOwnership(worldId, u) # OK
    THEN [status |-> validateWorldOwnership(worldId, u), items |-> <<>>]
    ELSE IF q = Undefined \/ q = <<>>
    THEN [status |-> OK, items |-> <<>>]
    ELSE [status |-> OK,
          items |-> SkipTake(SortByTitle({ e \in DOMAIN entries :
                        /\ entries[e].worldId = worldId
                        /\ entries[e].deletedAt = NullT
                        /\ ContainsInsensitive(entries[e].title, q) }), 0, SEARCH_TAKE)]

\* ---- GET /api/worlds/:worldId/entries/:entryId
FindAliveEntry_AnyWorld(entryId, worldId) ==
    /\ entryId \in DOMAIN entries
    /\ entries[entryId].deletedAt = NullT

\* findFirst({ id, worldId, deletedAt: null })
FindAliveEntry(entryId, worldId) ==
    /\ entryId \in DOMAIN entries
    /\ entries[entryId].worldId = worldId
    /\ entries[entryId].deletedAt = NullT

EntryGetResp(u, worldId, entryId) ==
    IF validateWorldOwnership(worldId, u) # OK
    THEN [status |-> validateWorldOwnership(worldId, u), items |-> <<>>, entry |-> NoBody]
    ELSE IF ~FindAliveEntry(entryId, worldId)
    THEN [status |-> NOT_FOUND, items |-> <<>>, entry |-> NoBody]
    ELSE [status |-> OK, items |-> <<entryId>>, entry |-> entries[entryId]]

\* ---- PATCH /api/worlds/:worldId/entries/:entryId
EntryUpdateStatus(u, worldId, entryId, title, description) ==
    IF validateWorldOwnership(worldId, u) # OK THEN validateWorldOwnership(worldId, u)
    ELSE IF ~FindAliveEntry(entryId, worldId) THEN NOT_FOUND
    ELSE IF PatchTitleStatus(title) # OK THEN BAD_REQUEST
    ELSE DescriptionStatus(description)

\* an absent metadata field of the body, among field lists
MetadataUndefined == <<[undefined |-> TRUE]>>

\* metadata is absent or the submitted field list, stored as it comes
EntryUpdate_TitleBeforeDescriptionCheck(u, worldId, entryId, title, description, metadata) ==
    /\ resp' = Resp("EntryUpdate",
                    EntryUpdateStatus(u, worldId, entryId, title, description), NoBody)
    /\ entries' =
         IF EntryUpdateStatus(u, worldId, entryId, title, Undefined) = OK /\ title # Undefined
         THEN [entries EXCEPT ![entryId].title = Trim(title)]
         ELSE entries
    /\ UNCHANGED <<worlds, rels, nextRel, lore, events, now, pending, users, editor>>

EntryUpdate(u, worldId, entryId, title, description, metadata) ==
    /\ resp' = Resp("EntryUpdate",
                    EntryUpdateStatus(u, worldId, entryId, title, description), NoBody)
    /\ entries' =
         IF EntryUpdateStatus(u, worldId, entryId, title, description) = OK
         THEN [entries EXCEPT ![entryId] =
                 [@ EXCEPT !.title = IF title = Undefined THEN @ ELSE Trim(title),
                           !.description = IF description = Undefined THEN @
                                           ELSE StoredDescription(description),
                           !.metadata = IF metadata = MetadataUndefined THEN @ ELSE metadata]]
         ELSE entries
    /\ UNCHANGED <<worlds, rels, nextRel, lore, events, now, pending, users, editor>>

\* ---- DELETE /api/worlds/:worldId/entries/:entryId
EntryDeleteStatus(u, worldId, entryId) ==
    IF validateWorldOwnership(worldId, u) # OK THEN validateWorldOwnership(worldId, u)
    ELSE IF ~FindAliveEntry(entryId, worldId) THEN NOT_FOUND
    ELSE OK

EntryDelete_DropsRelationships(u, worldId, entryId) ==
    /\ resp' = Resp("EntryDelete", EntryDeleteStatus(u, worldId, entryId), NoBody)
    /\ entries' = IF EntryDeleteStatus(u, worldId, entryId) = OK
                  THEN [entries EXCEPT ![entryId].deletedAt = now]
                  ELSE entries
    /\ rels' = IF EntryDeleteStatus(u, worldId, entryId) = OK
               THEN [r \in { x \in DOMAIN rels : rels[x].sourceId # entryId /\ rels[x].targetId # entryId }
                       |-> rels[r]]
               ELSE rels
    /\ UNCHANGED <<worlds, nextRel, lore, events, now, pending, users, editor>>

EntryDelete(u, worldId, entryId) ==
    /\ resp' = Resp("EntryDelete", EntryDeleteStatus(u, worldId, entryId), NoBody)
    /\ entries' = IF EntryDeleteStatus(u, worldId, entryId) = OK
                  THEN [entries EXCEPT ![entryId].deletedAt = now]
                  ELSE entries
    /\ UNCHANGED <<worlds, rels, nextRel, lore, events, now, pending, users, editor>>

\* ---- the metadata sidebar of the entry editor (MetadataSidebar)
\* `custom_${Date.now()}`
CustomId(t) == CASE t = 1 -> "custom_1" [] t = 2 -> "custom_2" [] OTHER -> "custom_3"

\* id.startsWith('custom_')
StartsWithCustom(id) == id \in {"custom_1", "custom_2", "custom_3"}

\* metadata.filter(f => f.id !== id)
RECURSIVE FilterOutId(_, _)
FilterOutId(metadata, id) ==
    IF metadata = <<>> THEN <<>>
    ELSE IF Head(metadata).id # id THEN <<Head(metadata)>> \o FilterOutId(Tail(metadata), id)
    ELSE FilterOutId(Tail(metadata), id)

handleFieldChange(metadata, id, value) ==
    [i \in 1..Len(metadata) |->
        IF metadata[i].id = id THEN [metadata[i] EXCEPT !.value = value] ELSE metadata[i]]

\* a blank name adds nothing
handleAddField(metadata, newFieldName, t) ==
    IF Len(Trim(newFieldName)) = 0 THEN metadata
    ELSE Append(metadata, [id |-> CustomId(t), name |-> Trim(newFieldName), type |-> "text",
                           value |-> "", options |-> NoOptions])

handleRemoveField(metadata, id) ==
    IF StartsWithCustom(id) THEN FilterOutId(metadata, id) ELSE metadata

\* ===================================================== Relationship routes
TypeUndefined == "<undefined>"

\* a row id no table ever hands out (ids are random cuids)
AbsentId == 0

\* the rows with a given (sourceId, targetId): the compound unique key sourceId_targetId
sourceId_targetId(table, sourceId, targetId) ==
    { r \in DOMAIN table : table[r].sourceId = sourceId /\ table[r].targetId = targetId }

\* the unique index on (sourceId, targetId) rejects an insert (P2002)
UniqueViolation_Off(table, sourceId, targetId) == FALSE

UniqueViolation(table, sourceId, targetId) ==
    sourceId_targetId(table, sourceId, targetId) # {}

\* the relations source and target: an inserted row must reference Entry rows
ForeignKeysHold(sourceId, targetId) ==
    sourceId \in DOMAIN entries /\ targetId \in DOMAIN entries

\* ---- GET /api/worlds/:worldId/relationships
RelListResp(u, worldId) ==
    IF ~verifyWorldOwnership(worldId, u)
    THEN [status |-> NOT_FOUND, items |-> <<>>, included |-> {}]
    ELSE LET ids == { r \in DOMAIN rels : rels[r].worldId = worldId }
         IN  [status |-> OK,
              items |-> SortDesc(ids, nextRel),
              \* include: { source: {id, title, type}, target: {id, title, type} }
              included |-> { rels[r].sourceId : r \in ids } \cup { rels[r].targetId : r \in ids }]

\* ---- POST /api/worlds/:worldId/relationships
RelCreateStatus_NoExistingCheck(u, worldId, sourceId, targetId, type) ==
    IF ~verifyWorldOwnership(worldId, u) THEN NOT_FOUND
    ELSE IF sourceId = AbsentId \/ targetId = AbsentId THEN BAD_REQUEST
    ELSE IF ~Includes(VALID_TYPES, IF type = TypeUndefined THEN "related" ELSE type)
    THEN BAD_REQUEST
    ELSE IF ~FindAliveEntry(sourceId, worldId) \/ ~FindAliveEntry(targetId, worldId)
    THEN BAD_REQUEST
    ELSE OK

RelCreateStatus(u, worldId, sourceId, targetId, type) ==
    IF ~verifyWorldOwnership(worldId, u) THEN NOT_FOUND
    ELSE IF sourceId = AbsentId \/ targetId = AbsentId THEN BAD_REQUEST
    ELSE IF ~Includes(VALID_TYPES, IF type = TypeUndefined THEN "related" ELSE type)
    THEN BAD_REQUEST
    ELSE IF ~FindAliveEntry(sourceId, worldId) \/ ~FindAliveEntry(targetId, worldId)
    THEN BAD_REQUEST
    ELSE IF sourceId_targetId(rels, sourceId, targetId) # {} THEN BAD_REQUEST
    ELSE OK

PendingRelCreates == { r \in pending : r.op = "RelCreate" }
PendingBulks == { r \in pending : r.op = "RelBulk" }

\* relationship ids the requests in flight may still take
IdsReserved ==
    Cardinality(PendingRelCreates)
    + Cardinality({ <<r, i>> \in UNION { {r} \X r.todo : r \in PendingBulks } :
                      r.relationships[i].id = AbsentId })

\* the reads and validations; on success the handler awaits the insert
RelCreateBegin(u, worldId, sourceId, targetId, label, type) ==
    /\ IF RelCreateStatus(u, worldId, sourceId, targetId, type) # OK
       THEN /\ resp' = Resp("RelCreate", RelCreateStatus(u, worldId, sourceId, targetId, type), NoBody)
            /\ UNCHANGED pending
       ELSE /\ Cardinality(PendingRelCreates) < MaxPending
            /\ nextRel + IdsReserved < MaxRels
            /\ pending' = pending \cup
                 {PendingReq("RelCreate", u, worldId,
                             IF type = TypeUndefined THEN "related" ELSE type,
                             Undefined, Undefined, sourceId, targetId, label)}
            /\ UNCHANGED resp
    /\ UNCHANGED <<worlds, entries, rels, nextRel, lore, events, now, users, editor>>

\* prisma.entryRelationship.create: data { sourceId, targetId, worldId, label: label || null, type }
RelCreateCommit(req) ==
    /\ req \in PendingRelCreates
    /\ pending' = pending \ {req}
    /\ IF UniqueViolation(rels, req.sourceId, req.targetId)
          \/ ~ForeignKeysHold(req.sourceId, req.targetId)
       THEN /\ resp' = Resp("RelCreate", SERVER_ERROR, NoBody)
            /\ UNCHANGED <<rels, nextRel>>
       ELSE /\ rels' = rels @@ ((nextRel + 1) :>
                  [sourceId |-> req.sourceId, targetId |-> req.targetId,
                   worldId |-> req.worldId,
                   label |-> IF req.label \in {LabelUndefined, LabelNull, ""}
                             THEN LabelNull ELSE req.label,
                   type |-> req.type])
            /\ nextRel' = nextRel + 1
            /\ resp' = Resp("RelCreate", CREATED, <<nextRel + 1>>)
    /\ UNCHANGED <<worlds, entries, lore, events, now, users, editor>>

\* ---- POST /api/worlds/:worldId/relationships/bulk
\* a descriptor: id (AbsentId when it carries none), sourceId, targetId, label, type
Descriptor(id, sourceId, targetId, label, type) ==
    [id |-> id, sourceId |-> sourceId, targetId |-> targetId, label |-> label, type |-> type]

\* data: { label: rel.label, type: rel.type || 'related' } (an undefined label is left as it is)
BulkUpdateRow(row, d) ==
    [row EXCEPT !.label = IF d.label = LabelUndefined THEN @ ELSE d.label,
                !.type = IF d.type \in {TypeUndefined, ""} THEN "related" ELSE d.type]

\* one descriptor's database call on db = [rels, nextRel, failed]
BulkOne(db, worldId, d) ==
    IF d.id # AbsentId
    THEN \* prisma.entryRelationship.update({ where: { id: rel.id } })
         IF d.id \in DOMAIN db.rels
         THEN [db EXCEPT !.rels = [@ EXCEPT ![d.id] = BulkUpdateRow(@, d)]]
         ELSE [db EXCEPT !.failed = @ + 1]
    ELSE \* prisma.entryRelationship.upsert({ where: { sourceId_targetId } })
         IF sourceId_targetId(db.rels, d.sourceId, d.targetId) # {}
         THEN LET r == CHOOSE x \in sourceId_targetId(db.rels, d.sourceId, d.targetId) : TRUE
              IN  [db EXCEPT !.rels = [@ EXCEPT ![r] = BulkUpdateRow(@, d)]]
         ELSE IF ForeignKeysHold(d.sourceId, d.targetId)
         THEN [db EXCEPT
                 !.rels = @ @@ ((db.nextRel + 1) :>
                    [sourceId |-> d.sourceId, targetId |-> d.targetId, worldId |-> worldId,
                     label |-> IF d.label = LabelUndefined THEN LabelNull ELSE d.label,
                     type |-> IF d.type \in {TypeUndefined, ""} THEN "related" ELSE d.type]),
                 !.nextRel = @ + 1]
         ELSE [db EXCEPT !.failed = @ + 1]

RECURSIVE BulkAll_StopsAtFailure(_, _, _, _, _)
BulkAll_StopsAtFailure(db, worldId, relationships, order, i) ==
    IF i > Len(relationships) \/ db.failed > 0 THEN db
    ELSE BulkAll_StopsAtFailure(BulkOne(db, worldId, relationships[order[i]]),
                                worldId, relationships, order, i + 1)

\* Promise.all(relationships.map(...)) with no other request in between: the calls
\* complete in the order `order`
RECURSIVE BulkAll(_, _, _, _, _)
BulkAll(db, worldId, relationships, order, i) ==
    IF i > Len(relationships) THEN db
    ELSE BulkAll(BulkOne(db, worldId, relationships[order[i]]), worldId, relationships, order, i + 1)

BulkDelete_AnyWorld(table, worldId, deletedIds) ==
    LET gone == { r \in DOMAIN table : Includes(deletedIds, r) }
    IN  [r \in DOMAIN table \ gone |-> table[r]]

\* deleteMany({ where: { id: { in: deletedIds }, worldId } })
BulkDelete(table, worldId, deletedIds) ==
    LET gone == { r \in DOMAIN table : Includes(deletedIds, r) /\ table[r].worldId = worldId }
    IN  [r \in DOMAIN table \ gone |-> table[r]]

\* the handler's database work after the ownership check when it runs alone
BulkApply_UpsertThenDelete(table, next, worldId, relationships, deletedIds, order) ==
    LET done == BulkAll([rels |-> table, nextRel |-> next, failed |-> 0],
                        worldId, relationships, order, 1)
    IN  [done EXCEPT !.rels = BulkDelete(@, worldId, deletedIds)]

BulkApply(table, next, worldId, relationships, deletedIds, order) ==
    BulkAll([rels |-> BulkDelete(table, worldId, deletedIds), nextRel |-> next, failed |-> 0],
            worldId, relationships, order, 1)

IdLess(relationships) == { i \in 1..Len(relationships) : relationships[i].id = AbsentId }

RelBulkStatus(u, worldId) == IF ~verifyWorldOwnership(worldId, u) THEN NOT_FOUND ELSE OK

\* res.json({ saved: results.length, deleted: deletedIds?.length || 0 }), or the catch block
RelBulkResp(failed, saved, deleted) ==
    IF failed > 0 THEN Resp("RelBulk", SERVER_ERROR, NoBody)
    ELSE Resp("RelBulk", OK, <<saved, deleted>>)

\* the ownership check and deleteMany; the handler then awaits the calls of Promise.all
RelBulkBegin(u, worldId, relationships, deletedIds) ==
    /\ IF RelBulkStatus(u, worldId) # OK
       THEN /\ resp' = Resp("RelBulk", RelBulkStatus(u, worldId), NoBody)
            /\ UNCHANGED <<rels, pending>>
       ELSE /\ Cardinality(PendingBulks) < MaxPendingBulk
            /\ nextRel + IdsReserved + Cardinality(IdLess(relationships)) <= MaxRels
            /\ rels' = BulkDelete(rels, worldId, deletedIds)
            /\ pending' = pending \cup
                 {[op |-> "RelBulk", user |-> u, worldId |-> worldId,
                   relationships |-> relationships, deleted |-> Len(deletedIds),
                   todo |-> 1..Len(relationships), failed |-> 0]}
            /\ UNCHANGED resp
    /\ UNCHANGED <<worlds, entries, nextRel, lore, events, now, users, editor>>

\* one of the update / upsert calls completes
RelBulkCall(req, i) ==
    /\ req \in PendingBulks
    /\ i \in req.todo
    /\ LET db == BulkOne([rels |-> rels, nextRel |-> nextRel, failed |-> req.failed],
                         req.worldId, req.relationships[i])
       IN  /\ rels' = db.rels
           /\ nextRel' = db.nextRel
           /\ pending' = (pending \ {req})
                            \cup {[req EXCEPT !.todo = @ \ {i}, !.failed = db.failed]}
    /\ UNCHANGED <<worlds, entries, lore, events, now, resp, users, editor>>

\* every call has completed: the response
RelBulkEnd(req) ==
    /\ req \in PendingBulks
    /\ req.todo = {}
    /\ pending' = pending \ {req}
    /\ resp' = RelBulkResp(req.failed, Len(req.relationships), req.deleted)
    /\ UNCHANGED <<worlds, entries, rels, nextRel, lore, events, now, users, editor>>

\* the whole handler when no other request runs between its database calls
RelBulk(u, worldId, relationships, deletedIds, order) ==
    /\ nextRel + Cardinality(IdLess(relationships)) <= MaxRels
    /\ IF RelBulkStatus(u, worldId) # OK
       THEN /\ resp' = Resp("RelBulk", RelBulkStatus(u, worldId), NoBody)
            /\ UNCHANGED <<rels, nextRel>>
       ELSE LET db == BulkApply(rels, nextRel, worldId, relationships, deletedIds, order)
            IN  /\ rels' = db.rels
                /\ nextRel' = db.nextRel
                /\ resp' = RelBulkResp(db.failed, Len(relationships), Len(deletedIds))
    /\ UNCHANGED <<worlds, entries, lore, events, now, pending, users, editor>>

\* ---- PATCH /api/worlds/:worldId/relationships/:relationshipId
\* findFirst({ id: relationshipId, worldId })
FindRel(relationshipId, worldId) ==
    relationshipId \in DOMAIN rels /\ rels[relationshipId].worldId = worldId

RelUpdateStatus(u, worldId, relationshipId, type) ==
    IF ~verifyWorldOwnership(worldId, u) THEN NOT_FOUND
    ELSE IF ~FindRel(relationshipId, worldId) THEN NOT_FOUND
    ELSE IF type # TypeUndefined /\ ~Includes(VALID_TYPES, type) THEN BAD_REQUEST
    ELSE OK

RelUpdate(u, worldId, relationshipId, label, type) ==
    /\ resp' = Resp("RelUpdate", RelUpdateStatus(u, worldId, relationshipId, type), NoBody)
    /\ rels' = IF RelUpdateStatus(u, worldId, relationshipId, type) = OK
               THEN [rels EXCEPT ![relationshipId] =
                       [@ EXCEPT !.label = IF label = LabelUndefined THEN @ ELSE label,
                                 !.type = IF type = TypeUndefined THEN @ ELSE type]]
               ELSE rels
    /\ UNCHANGED <<worlds, entries, nextRel, lore, events, now, pending, users, editor>>

\* ---- DELETE /api/worlds/:worldId/relationships/:relationshipId
RelDeleteStatus(u, worldId, relationshipId) ==
    IF ~verifyWorldOwnership(worldId, u) THEN NOT_FOUND
    ELSE IF ~FindRel(relationshipId, worldId) THEN NOT_FOUND
    ELSE OK

RelDelete(u, worldId, relationshipId) ==
    /\ resp' = Resp("RelDelete", RelDeleteStatus(u, worldId, relationshipId), NoBody)
    /\ rels' = IF RelDeleteStatus(u, worldId, relationshipId) = OK
               THEN [r \in DOMAIN rels \ {relationshipId} |-> rels[r]]
               ELSE rels
    /\ UNCHANGED <<worlds, entries, nextRel, lore, events, now, pending, users, editor>>

\* ============================================================= Lore routes
\* !title?.trim()
BlankOrMissing(text) ==
    text = Undefined \/ text = Null \/ Len(Trim(text)) = 0

\* ---- GET /api/worlds/:worldId/lore
LoreListResp(u, worldId) ==
    IF ~LoreWorldCheck(worldId, u) THEN [status |-> NOT_FOUND, items |-> {}]
    ELSE [status |-> OK,
          items |-> { a \in DOMAIN lore : lore[a].worldId = worldId /\ lore[a].deletedAt = NullT }]

\* ---- POST /api/worlds/:worldId/lore
LoreCreateStatus(u, worldId, title) ==
    IF BlankOrMissing(title) THEN BAD_REQUEST
    ELSE IF ~LoreWorldCheck(worldId, u) THEN NOT_FOUND
    ELSE CREATED

LoreCreate(u, worldId, title) ==
    /\ IF LoreCreateStatus(u, worldId, title) # CREATED
       THEN /\ resp' = Resp("LoreCreate", LoreCreateStatus(u, worldId, title), NoBody)
            /\ UNCHANGED lore
       ELSE /\ NewId(lore) \in LoreIds
            /\ lore' = lore @@ (NewId(lore) :>
                  [worldId |-> worldId, title |-> Trim(title), deletedAt |-> NullT])
            /\ resp' = Resp("LoreCreate", CREATED, <<NewId(lore)>>)
    /\ UNCHANGED <<worlds, entries, rels, nextRel, events, now, pending, users, editor>>

\* ---- GET /api/worlds/:worldId/lore/:id
\* findFirst({ id, worldId, deletedAt: null })
FindAliveLore(id, worldId) ==
    id \in DOMAIN lore /\ lore[id].worldId = worldId /\ lore[id].deletedAt = NullT

LoreGetResp(u, worldId, id) ==
    IF ~LoreWorldCheck(worldId, u) THEN [status |-> NOT_FOUND, items |-> {}]
    ELSE IF ~FindAliveLore(id, worldId) THEN [status |-> NOT_FOUND, items |-> {}]
    ELSE [status |-> OK, items |-> {id}]

\* ---- PATCH /api/worlds/:worldId/lore/:id
\* title.trim() of a null title throws, which the handler answers with 500
LoreUpdateStatus(u, worldId, id, title) ==
    IF ~LoreWorldCheck(worldId, u) THEN NOT_FOUND
    ELSE IF ~FindAliveLore(id, worldId) THEN NOT_FOUND
    ELSE IF title = Null THEN SERVER_ERROR
    ELSE OK

LoreUpdate(u, worldId, id, title) ==
    /\ resp' = Resp("LoreUpdate", LoreUpdateStatus(u, worldId, id, title), NoBody)
    /\ lore' = IF LoreUpdateStatus(u, worldId, id, title) = OK /\ title # Undefined
               THEN [lore EXCEPT ![id].title = Trim(title)]
               ELSE lore
    /\ UNCHANGED <<worlds, entries, rels, nextRel, events, now, pending, users, editor>>

\* ---- DELETE /api/worlds/:worldId/lore/:id
\* loreArticle.update({ where: { id } }) throws when no row has the id
LoreDeleteStatus(u, worldId, id) ==
    IF ~LoreWorldCheck(worldId, u) THEN NOT_FOUND
    ELSE IF id \notin DOMAIN lore THEN SERVER_ERROR
    ELSE OK

LoreDelete(u, worldId, id) ==
    /\ resp' = Resp("LoreDelete", LoreDeleteStatus(u, worldId, id), NoBody)
    /\ lore' = IF LoreDeleteStatus(u, worldId, id) = OK
               THEN [lore EXCEPT ![id].deletedAt = now]
               ELSE lore
    /\ UNCHANGED <<worlds, entries, rels, nextRel, events, now, pending, users, editor>>

\* ========================================================= Timeline routes
\* ---- GET /api/worlds/:worldId/timeline
TimelineListResp(u, worldId) ==
    IF ~TimelineWorldCheck(worldId, u) THEN [status |-> NOT_FOUND, items |-> {}]
    ELSE [status |-> OK,
          items |-> { a \in DOMAIN events :
                        events[a].worldId = worldId /\ events[a].deletedAt = NullT }]

\* ---- POST /api/worlds/:worldId/timeline
TimelineCreateStatus(u, worldId, title, date) ==
    IF BlankOrMissing(title) THEN BAD_REQUEST
    ELSE IF BlankOrMissing(date) THEN BAD_REQUEST
    ELSE IF ~TimelineWorldCheck(worldId, u) THEN NOT_FOUND
    ELSE CREATED

TimelineCreate(u, worldId, title, date) ==
    /\ IF TimelineCreateStatus(u, worldId, title, date) # CREATED
       THEN /\ resp' = Resp("TimelineCreate", TimelineCreateStatus(u, worldId, title, date), NoBody)
            /\ UNCHANGED events
       ELSE /\ NewId(events) \in EventIds
            /\ events' = events @@ (NewId(events) :>
                  [worldId |-> worldId, title |-> Trim(title), date |-> Trim(date),
                   deletedAt |-> NullT])
            /\ resp' = Resp("TimelineCreate", CREATED, <<NewId(events)>>)
    /\ UNCHANGED <<worlds, entries, rels, nextRel, lore, now, pending, users, editor>>

\* ---- GET /api/worlds/:worldId/timeline/:id
FindAliveEvent(id, worldId) ==
    id \in DOMAIN events /\ events[id].worldId = worldId /\ events[id].deletedAt = NullT

TimelineGetResp(u, worldId, id) ==
    IF ~TimelineWorldCheck(worldId, u) THEN [status |-> NOT_FOUND, items |-> {}]
    ELSE IF ~FindAliveEvent(id, worldId) THEN [status |-> NOT_FOUND, items |-> {}]
    ELSE [status |-> OK, items |-> {id}]

\* ---- PATCH /api/worlds/:worldId/timeline/:id
TimelineUpdateStatus(u, worldId, id, title, date) ==
    IF ~TimelineWorldCheck(worldId, u) THEN NOT_FOUND
    ELSE IF ~FindAliveEvent(id, worldId) THEN NOT_FOUND
    ELSE IF title = Null \/ date = Null THEN SERVER_ERROR
    ELSE OK

TimelineUpdate(u, worldId, id, title, date) ==
    /\ resp' = Resp("TimelineUpdate", TimelineUpdateStatus(u, worldId, id, title, date), NoBody)
    /\ events' = IF TimelineUpdateStatus(u, worldId, id, title, date) = OK
                 THEN [events EXCEPT ![id] =
                         [@ EXCEPT !.title = IF title = Undefined THEN @ ELSE Trim(title),
                                   !.date = IF date = Undefined THEN @ ELSE Trim(date)]]
                 ELSE events
    /\ UNCHANGED <<worlds, entries, rels, nextRel, lore, now, pending, users, editor>>

\* ---- DELETE /api/worlds/:worldId/timeline/:id
TimelineDeleteStatus(u, worldId, id) ==
    IF ~TimelineWorldCheck(worldId, u) THEN NOT_FOUND
    ELSE IF id \notin DOMAIN events THEN SERVER_ERROR
    ELSE OK

TimelineDelete(u, worldId, id) ==
    /\ resp' = Resp("TimelineDelete", TimelineDeleteStatus(u, worldId, id), NoBody)
    /\ events' = IF TimelineDeleteStatus(u, worldId, id) = OK
                 THEN [events EXCEPT ![id].deletedAt = now]
                 ELSE events
    /\ UNCHANGED <<worlds, entries, rels, nextRel, lore, now, pending, users, editor>>

\* the clock advances between requests
Tick ==
    /\ now < MaxNow
    /\ now' = now + 1
    /\ UNCHANGED <<worlds, entries, rels, nextRel, lore, events, pending, resp, users, editor>>

\* ============================================================= Auth routes
PASSWORD_MIN == 8
DISPLAY_NAME_MAX == 50

\* the tick count of the hour a reset token lives
RESET_TTL == 1

\* utils/validation.ts
normalizeEmail(email) == Trim(LowerSeq(email))

\* /^[^\s@]+@[^\s@]+\.[^\s@]+$/
isValidEmail(email) ==
    /\ \A i \in 1..Len(email) : email[i] # " "
    /\ \E k \in 2..Len(email) :
          /\ email[k] = "@"
          /\ \A i \in 1..Len(email) : email[i] = "@" => i = k
          /\ \E j \in (k + 2)..(Len(email) - 1) : email[j] = "."

isValidPassword(password) == Len(password) >= PASSWORD_MIN

isValidDisplayName(displayName) ==
    Len(displayName) >= 1 /\ Len(displayName) <= DISPLAY_NAME_MAX

\* utils/crypto.ts: bcryptjs hash and compare
hashPassword(password) == <<"bcrypt", password>>

comparePassword(password, hash) == hash = <<"bcrypt", password>>

\* utils/jwt.ts
generateToken(userId) == <<"jwt", userId>>

\* prisma.user.findUnique({ where: { email } }): the ids of the rows found
UsersByEmail(email) == { id \in DOMAIN users : users[id].email = email }

\* !email : the field is absent or the empty string
Falsy(text) == text = Undefined \/ text = Null \/ text = <<>>

\* ---- POST /api/auth/register
RegisterStatus(email, password, displayName) ==
    IF Falsy(email) \/ Falsy(password) \/ Falsy(displayName) THEN BAD_REQUEST
    ELSE IF ~isValidEmail(normalizeEmail(email)) THEN BAD_REQUEST
    ELSE IF ~isValidPassword(password) THEN BAD_REQUEST
    ELSE IF ~isValidDisplayName(displayName) THEN BAD_REQUEST
    ELSE IF UsersByEmail(normalizeEmail(email)) # {} THEN BAD_REQUEST
    ELSE CREATED

Register(email, password, displayName) ==
    /\ IF RegisterStatus(email, password, displayName) # CREATED
       THEN /\ resp' = Resp("Register", BAD_REQUEST, NoBody)
            /\ UNCHANGED users
       ELSE /\ NewId(users) <= MaxAccounts
            /\ users' = users @@ (NewId(users) :>
                  [email |-> normalizeEmail(email), passwordHash |-> hashPassword(password),
                   displayName |-> Trim(displayName), resetToken |-> Null,
                   resetTokenExpiry |-> NullT])
            /\ resp' = Resp("Register", CREATED, generateToken(NewId(users)))
    /\ UNCHANGED <<worlds, entries, rels, nextRel, lore, events, now, pending, editor>>

\* ---- POST /api/auth/login: status and body of the response
LoginResp_NamesUnknownEmail(email, password) ==
    IF Falsy(email) \/ Falsy(password)
    THEN [status |-> BAD_REQUEST, body |-> "Email and password are required."]
    ELSE IF UsersByEmail(normalizeEmail(email)) = {}
    THEN [status |-> NOT_FOUND, body |-> "User not found."]
    ELSE LET user == CHOOSE id \in UsersByEmail(normalizeEmail(email)) : TRUE
         IN  IF ~comparePassword(password, users[user].passwordHash)
             THEN [status |-> UNAUTHORIZED, body |-> "Invalid email or password."]
             ELSE [status |-> OK, body |-> generateToken(user)]

LoginResp(email, password) ==
    IF Falsy(email) \/ Falsy(password)
    THEN [status |-> BAD_REQUEST, body |-> "Email and password are required."]
    ELSE IF UsersByEmail(normalizeEmail(email)) = {}
    THEN [status |-> UNAUTHORIZED, body |-> "Invalid email or password."]
    ELSE LET user == CHOOSE id \in UsersByEmail(normalizeEmail(email)) : TRUE
         IN  IF ~comparePassword(password, users[user].passwordHash)
             THEN [status |-> UNAUTHORIZED, body |-> "Invalid email or password."]
             ELSE [status |-> OK, body |-> generateToken(user)]

Login(email, password) ==
    /\ resp' = Resp("Login", LoginResp(email, password).status, LoginResp(email, password).body)
    /\ UNCHANGED <<worlds, entries, rels, nextRel, lore, events, now, pending, users, editor>>

\* ---- POST /api/auth/forgot-password: status and body of the response
ForgotPasswordResp_NoSuchUser(email) ==
    IF Falsy(email) THEN [status |-> BAD_REQUEST, body |-> "Email is required."]
    ELSE IF UsersByEmail(normalizeEmail(email)) = {}
    THEN [status |-> NOT_FOUND, body |-> "No account with that email."]
    ELSE [status |-> OK, body |-> "If that email exists, a reset link has been sent."]

ForgotPasswordResp(email) ==
    IF Falsy(email) THEN [status |-> BAD_REQUEST, body |-> "Email is required."]
    ELSE [status |-> OK, body |-> "If that email exists, a reset link has been sent."]

\* resetToken is crypto.randomBytes(32); its hash and expiry are stored for a known email
ForgotPassword(email, resetToken) ==
    /\ resp' = Resp("ForgotPassword", ForgotPasswordResp(email).status, ForgotPasswordResp(email).body)
    /\ users' =
         IF ~Falsy(email) /\ UsersByEmail(normalizeEmail(email)) # {}
         THEN LET user == CHOOSE id \in UsersByEmail(normalizeEmail(email)) : TRUE
              IN  [users EXCEPT ![user].resetToken = hashPassword(resetToken),
                                ![user].resetTokenExpiry = now + RESET_TTL]
         ELSE users
    /\ UNCHANGED <<worlds, entries, rels, nextRel, lore, events, now, pending, editor>>

\* ---- POST /api/auth/reset-password
\* findMany({ resetToken: { not: null }, resetTokenExpiry: { gt: new Date() } }), then
\* the users whose stored hash matches the token
ResetMatches(token) ==
    { id \in DOMAIN users :
        /\ users[id].resetToken # Null
        /\ users[id].resetTokenExpiry > now
        /\ comparePassword(token, users[id].resetToken) }

ResetPasswordStatus(token, newPassword) ==
    IF Falsy(token) \/ Falsy(newPassword) THEN BAD_REQUEST
    ELSE IF ~isValidPassword(newPassword) THEN BAD_REQUEST
    ELSE IF ResetMatches(token) = {} THEN BAD_REQUEST
    ELSE OK

\* the loop takes the first match of findMany, whose order is not specified
ResetPassword(token, newPassword) ==
    /\ resp' = Resp("ResetPassword", ResetPasswordStatus(token, newPassword), NoBody)
    /\ IF ResetPasswordStatus(token, newPassword) = OK
       THEN \E user \in ResetMatches(token) :
               users' = [users EXCEPT ![user].passwordHash = hashPassword(newPassword),
                                      ![user].resetToken = Null,
                                      ![user].resetTokenExpiry = NullT]
       ELSE UNCHANGED users
    /\ UNCHANGED <<worlds, entries, rels, nextRel, lore, events, now, pending, editor>>

\* ================================================= RelationshipMap component
\* the component of user EditorUser on World EditorWorld
EditorUser == 1
EditorWorld == 1

\* no edge is selected / edited; ids of edges drawn in the editor start above NEW_EDGE
NoEdge == 0
NEW_EDGE == 100

Edge(id, source, target, label, type, dbId) ==
    [id |-> id, source |-> source, target |-> target, label |-> label, type |-> type, dbId |-> dbId]

\* useState / useQuery on mount: no data, no edges, nothing selected
MountedEditor ==
    [edges |-> <<>>, deletedIds |-> <<>>, selectedEdge |-> NoEdge, editingEdge |-> NoEdge,
     hasUnsavedChanges |-> FALSE, relationshipsData |-> <<>>, isPending |-> FALSE,
     settled |-> "none"]

\* relationshipsApi.list(worldId): the ids of the World's relationships as the server lists them
ListedRelationships ==
    IF RelListResp(EditorUser, EditorWorld).status = OK
    THEN RelListResp(EditorUser, EditorWorld).items ELSE <<>>

\* initialEdges: relationships.map(rel => ({ id: rel.id, ..., data: { label, type, dbId: rel.id } }))
initialEdges(relationshipsData) ==
    [i \in 1..Len(relationshipsData) |->
        Edge(relationshipsData[i].id, relationshipsData[i].sourceId, relationshipsData[i].targetId,
             relationshipsData[i].label, relationshipsData[i].type, relationshipsData[i].id)]

\* the query delivers the server's list; when the data object is a new one the memo is
\* recomputed and the effect replaces the edges by initialEdges unless that list is empty.
\* `shared` says whether a result equal to the cached one keeps the cached object
QueryRefetch(shared) ==
    LET data == [i \in 1..Len(ListedRelationships) |->
                    [id |-> ListedRelationships[i],
                     sourceId |-> rels[ListedRelationships[i]].sourceId,
                     targetId |-> rels[ListedRelationships[i]].targetId,
                     label |-> rels[ListedRelationships[i]].label,
                     type |-> rels[ListedRelationships[i]].type]]
    IN  /\ RelListResp(EditorUser, EditorWorld).status = OK
        /\ editor' = [editor EXCEPT
              !.relationshipsData = data,
              !.edges = IF (data # editor.relationshipsData \/ ~shared) /\ Len(data) > 0
                        THEN initialEdges(data) ELSE @]
        /\ UNCHANGED <<worlds, entries, rels, nextRel, lore, events, now, pending, resp, users>>

\* onConnect: a new edge without dbId, its id from the clock
onConnect(source, target) ==
    /\ Len(editor.edges) < MaxEdges
    /\ editor' = [editor EXCEPT
          !.edges = Append(@, Edge(NEW_EDGE + now, source, target, "", "related", AbsentId)),
          !.hasUnsavedChanges = TRUE]
    /\ UNCHANGED <<worlds, entries, rels, nextRel, lore, events, now, pending, resp, users>>

\* handleEdgeClick on one of the edges shown
handleEdgeClick(i) ==
    /\ i \in 1..Len(editor.edges)
    /\ editor' = [editor EXCEPT !.selectedEdge = editor.edges[i].id,
                                !.editingEdge = editor.edges[i].id]
    /\ UNCHANGED <<worlds, entries, rels, nextRel, lore, events, now, pending, resp, users>>

\* eds.filter(e => e.id !== id)
RECURSIVE EdgesWithout(_, _)
EdgesWithout(edges, id) ==
    IF edges = <<>> THEN <<>>
    ELSE IF Head(edges).id = id THEN EdgesWithout(Tail(edges), id)
    ELSE <<Head(edges)>> \o EdgesWithout(Tail(edges), id)

\* handleDeleteSelected: the dbId of the first edge with the selected id joins deletedIds
handleDeleteSelected ==
    /\ editor.selectedEdge # NoEdge
    /\ Len(editor.deletedIds) < MaxDeletedIds
    /\ LET found == { i \in 1..Len(editor.edges) : editor.edges[i].id = editor.selectedEdge }
           edge == editor.edges[CHOOSE i \in found : \A j \in found : i <= j]
       IN  editor' = [editor EXCEPT
              !.deletedIds = IF found # {} /\ edge.dbId # AbsentId THEN Append(@, edge.dbId) ELSE @,
              !.edges = EdgesWithout(@, editor.selectedEdge),
              !.selectedEdge = NoEdge,
              !.hasUnsavedChanges = TRUE]
    /\ UNCHANGED <<worlds, entries, rels, nextRel, lore, events, now, pending, resp, users>>

\* handleSaveEdgeEdit
handleSaveEdgeEdit(label, type) ==
    /\ editor.editingEdge # NoEdge
    /\ editor' = [editor EXCEPT
          !.edges = [i \in 1..Len(@) |->
                       IF @[i].id = editor.editingEdge
                       THEN [@[i] EXCEPT !.label = label, !.type = type] ELSE @[i]],
          !.hasUnsavedChanges = TRUE,
          !.editingEdge = NoEdge]
    /\ UNCHANGED <<worlds, entries, rels, nextRel, lore, events, now, pending, resp, users>>

\* handleDiscard, offered while there are unsaved changes
handleDiscard ==
    /\ editor.hasUnsavedChanges
    /\ editor' = [editor EXCEPT !.edges = initialEdges(editor.relationshipsData),
                                !.deletedIds = <<>>,
                                !.hasUnsavedChanges = FALSE]
    /\ UNCHANGED <<worlds, entries, rels, nextRel, lore, events, now, pending, resp, users>>

\* saveMutation.mutationFn: the payload built from the edges and deletedIds
SavePayload ==
    [relationships |->
        [i \in 1..Len(editor.edges) |->
            Descriptor(editor.edges[i].dbId, editor.edges[i].source, editor.edges[i].target,
                       IF editor.edges[i].label = "" THEN LabelNull ELSE editor.edges[i].label,
                       IF editor.edges[i].type = "" THEN "related" ELSE editor.edges[i].type)],
     deletedIds |-> editor.deletedIds]

\* saveMutation.mutate(): the bulk save runs on the server, its calls completing in `order`
saveMutate(order) ==
    /\ editor.hasUnsavedChanges /\ ~editor.isPending
    /\ RelBulkStatus(EditorUser, EditorWorld) = OK
    /\ nextRel + Cardinality(IdLess(SavePayload.relationships)) <= MaxRels
    /\ LET db == BulkApply(rels, nextRel, EditorWorld, SavePayload.relationships,
                           SavePayload.deletedIds, order)
       IN  /\ rels' = db.rels
           /\ nextRel' = db.nextRel
           /\ resp' = RelBulkResp(db.failed, Len(SavePayload.relationships),
                                  Len(SavePayload.deletedIds))
           /\ editor' = [editor EXCEPT !.isPending = TRUE,
                                       !.settled = IF db.failed > 0 THEN "error" ELSE "success"]
    /\ UNCHANGED <<worlds, entries, lore, events, now, pending, users>>

\* the response arrives: onSuccess clears deletedIds (the invalidated query refetches
\* later); an error only ends the pending state
saveSettled ==
    /\ editor.isPending
    /\ editor' = IF editor.settled = "success"
                 THEN [editor EXCEPT !.isPending = FALSE, !.settled = "none",
                                     !.hasUnsavedChanges = FALSE, !.deletedIds = <<>>]
                 ELSE [editor EXCEPT !.isPending = FALSE, !.settled = "none"]
    /\ UNCHANGED <<worlds, entries, rels, nextRel, lore, events, now, pending, resp, users>>

\* ========================================================== specifications
NoResp == Resp("none", 0, NoBody)

\* the registered accounts of the users who send the requests
Accounts ==
    [u \in Users |->
        [email |-> <<IF u = 1 THEN "a" ELSE "b", "@", "m", ".", "x">>,
         passwordHash |-> hashPassword([i \in 1..PASSWORD_MIN |-> "p"]),
         displayName |-> <<"a">>, resetToken |-> Null, resetTokenExpiry |-> NullT]]

\* the database after migration: no rows
InitEmpty ==
    /\ worlds = EmptyFn
    /\ entries = EmptyFn
    /\ rels = EmptyFn
    /\ nextRel = 0
    /\ lore = EmptyFn
    /\ events = EmptyFn
    /\ now = 1
    /\ pending = {}
    /\ resp = NoResp
    /\ users = Accounts
    /\ editor = MountedEditor

\* request inputs
TitleInputs == { <<"a">>, Undefined }
TypeInputs == { "character", "lore" }

\* ---- World Delete against concurrent Entry requests, from the empty database
NextCascade ==
    \/ \E u \in Users : WorldCreate(u, <<"a">>, Undefined)
    \/ \E u \in Users, w \in WorldIds, tick \in {0, 1} : WorldDelete(u, w, tick)
    \/ \E u \in Users, w \in WorldIds, type \in TypeInputs, title \in TitleInputs :
          EntryCreateBegin(u, w, type, title, Undefined)
    \/ \E req \in pending : EntryCreateCommit(req)
    \/ \E u \in Users, w \in WorldIds, e \in EntryIds : EntryDelete(u, w, e)
    \/ Tick

SpecCascade == InitEmpty /\ [][NextCascade]_vars

\* ---- two owners: user 1 owns world 1 and its content, user 2 owns world 2
InitTwoOwners ==
    /\ worlds = (1 :> [ownerId |-> 1, title |-> <<"a">>, description |-> Null, deletedAt |-> NullT])
             @@ (2 :> [ownerId |-> 2, title |-> <<"a">>, description |-> Null, deletedAt |-> NullT])
    /\ entries = (1 :> NewEntryRow(1, "custom", <<"a">>, Undefined))
              @@ (2 :> NewEntryRow(1, "custom", <<"a">>, Undefined))
    /\ rels = (1 :> [sourceId |-> 1, targetId |-> 2, worldId |-> 1,
                     label |-> LabelNull, type |-> "related"])
    /\ nextRel = 1
    /\ lore = (1 :> [worldId |-> 1, title |-> <<"a">>, deletedAt |-> NullT])
    /\ events = (1 :> [worldId |-> 1, title |-> <<"a">>, date |-> <<"a">>, deletedAt |-> NullT])
    /\ now = 1
    /\ pending = {}
    /\ resp = NoResp
    /\ users = Accounts
    /\ editor = MountedEditor

\* ids put in paths and bodies: every row there is, and one there is not
WorldArgs == DOMAIN worlds \cup {AbsentId}
EntryArgs == DOMAIN entries \cup {AbsentId}
RelArgs == DOMAIN rels \cup {AbsentId}
LoreArgs == DOMAIN lore \cup {AbsentId}
EventArgs == DOMAIN events \cup {AbsentId}

\* ---- world.routes.ts and entry.routes.ts, requests of both users
NextTwoOwners ==
    \/ \E u \in Users, title \in TitleInputs : WorldCreate(u, title, Undefined)
    \/ \E u \in Users, w \in WorldArgs, title \in {<<"b">>, <<" ">>} : WorldUpdate(u, w, title, Undefined)
    \/ \E u \in Users, w \in WorldArgs : WorldDelete(u, w, 0)
    \/ \E u \in Users, w \in WorldArgs, type \in TypeInputs, title \in TitleInputs :
          EntryCreateBegin(u, w, type, title, Undefined)
    \/ \E req \in pending : EntryCreateCommit(req)
    \/ \E u \in Users, w \in WorldArgs, e \in EntryArgs, title \in {<<"b">>, <<" ">>} :
          EntryUpdate(u, w, e, title, Undefined, MetadataUndefined)
    \/ \E u \in Users, w \in WorldArgs, e \in EntryArgs : EntryDelete(u, w, e)

Spec == InitTwoOwners /\ [][NextTwoOwners]_vars

\* ---- lore.routes.ts, requests of both users, and World Delete
LoreRequest(u) ==
    \/ \E w \in WorldArgs, title \in TitleInputs : LoreCreate(u, w, title)
    \/ \E w \in WorldArgs, a \in LoreArgs, title \in {<<"b">>, Undefined} : LoreUpdate(u, w, a, title)
    \/ \E w \in WorldArgs, a \in LoreArgs : LoreDelete(u, w, a)
    \/ \E w \in WorldArgs : WorldDelete(u, w, 0)

NextLore ==
    \/ \E u \in Users : LoreRequest(u)
    \/ Tick

SpecLore == InitTwoOwners /\ [][NextLore]_vars

\* ---- timeline.routes.ts, requests of both users
NextTimeline ==
    \/ \E u \in Users, w \in WorldArgs, title \in TitleInputs, date \in TitleInputs :
          TimelineCreate(u, w, title, date)
    \/ \E u \in Users, w \in WorldArgs, a \in EventArgs, title \in {<<"b">>, Undefined},
          date \in {<<" ">>, Undefined} : TimelineUpdate(u, w, a, title, date)
    \/ \E u \in Users, w \in WorldArgs, a \in EventArgs : TimelineDelete(u, w, a)
    \/ Tick

SpecTimeline == InitTwoOwners /\ [][NextTimeline]_vars

\* ---- relationship.routes.ts, requests of both users
\* bodies of POST /relationships/bulk: at most MaxBulk descriptors, at most one deleted id
BulkRelationshipInputs ==
    { <<>>,
      <<Descriptor(AbsentId, 1, 2, "x", "allies")>>,
      <<Descriptor(AbsentId, 2, 1, LabelUndefined, TypeUndefined), Descriptor(AbsentId, 1, 2, "x", "allies")>> }
    \cup { <<Descriptor(r, AbsentId, AbsentId, "x", "allies")>> : r \in DOMAIN rels }
    \cup { <<Descriptor(r, AbsentId, AbsentId, "x", "allies"),
             Descriptor(AbsentId, 1, 2, LabelUndefined, TypeUndefined)>> : r \in DOMAIN rels }

DeletedIdInputs == { <<>> } \cup { <<r>> : r \in DOMAIN rels }

\* bodies of POST /relationships: the two directions of one pair, and a missing id
PairInputs == { <<1, 2>>, <<2, 1>>, <<AbsentId, 1>> }

NextRel ==
    \/ \E u \in Users, w \in WorldArgs, p \in PairInputs, label \in {"x", LabelUndefined},
          type \in {TypeUndefined, "bogus"} : RelCreateBegin(u, w, p[1], p[2], label, type)
    \/ \E req \in pending : RelCreateCommit(req)
    \/ \E u \in Users, w \in WorldArgs, relationships \in BulkRelationshipInputs,
          deletedIds \in DeletedIdInputs : RelBulkBegin(u, w, relationships, deletedIds)
    \/ \E req \in pending : \E i \in 1..MaxBulk : RelBulkCall(req, i)
    \/ \E req \in pending : RelBulkEnd(req)
    \/ \E u \in Users, w \in WorldArgs, r \in RelArgs, type \in {TypeUndefined, "bogus"} :
          RelUpdate(u, w, r, "x", type)
    \/ \E u \in Users, w \in WorldArgs, r \in RelArgs : RelDelete(u, w, r)

SpecRel == InitTwoOwners /\ [][NextRel]_vars

\* ---- POST /relationships/bulk, one request at a time
\* the orders in which n calls can complete
Orders(n) == { o \in [1..n -> 1..n] : \A i \in 1..n, j \in 1..n : o[i] = o[j] => i = j }

NextBulk ==
    \/ \E u \in Users, w \in WorldArgs, relationships \in BulkRelationshipInputs,
          deletedIds \in DeletedIdInputs :
          \E order \in Orders(Len(relationships)) : RelBulk(u, w, relationships, deletedIds, order)
    \/ \E u \in Users, w \in WorldArgs, r \in RelArgs : RelDelete(u, w, r)

SpecBulk == InitTwoOwners /\ [][NextBulk]_vars

\* ---- POST /entries with every type, from the empty database
EntryTypeInputs ==
    { "character", "location", "item", "faction", "custom", "lore", "Character", "", TypeUndefined }

NextEntryTypes ==
    \/ \E u \in Users : WorldCreate(u, <<"a">>, Undefined)
    \/ \E u \in Users, w \in WorldIds, type \in EntryTypeInputs : EntryCreateBegin(u, w, type, <<"a">>, Undefined)
    \/ \E req \in pending : EntryCreateCommit(req)

SpecEntryTypes == InitEmpty /\ [][NextEntryTypes]_vars

\* ---- the list endpoints over tables of every size up to MaxRows
\* user 1 owns m worlds; world 1 holds n alive entries and one soft-deleted entry
WorldCounts == { 1, 21, MaxRows }

InitPage ==
    /\ \E m \in WorldCounts :
          worlds = [w \in 1..m |-> [ownerId |-> 1, title |-> <<"a">>, description |-> Null, deletedAt |-> NullT]]
    /\ \E n \in 0..MaxRows :
          entries = [e \in 1..(n + 1) |->
                       IF e = n + 1
                       THEN [NewEntryRow(1, "custom", <<"a">>, Undefined) EXCEPT !.deletedAt = 1]
                       ELSE NewEntryRow(1, "custom", <<"a">>, Undefined)]
    /\ rels = EmptyFn
    /\ nextRel = 0
    /\ lore = EmptyFn
    /\ events = EmptyFn
    /\ now = 1
    /\ pending = {}
    /\ resp = NoResp
    /\ users = Accounts
    /\ editor = MountedEditor

\* ?page= and ?limit= : absent or not a number, or a number
PageInputs == { <<>>, <<0>>, <<0 - 1>>, <<1>>, <<2>>, <<3>>, <<4>> }
LimitInputs == { <<>>, <<0>>, <<0 - 1>>, <<1>>, <<7>>, <<20>>, <<50>>, <<51>> }

NextPage ==
    \/ \E u \in Users, pageQ \in { <<>>, <<3>> }, limitQ \in { <<>>, <<7>> } :
          EntryList(u, 1, "", Undefined, pageQ, limitQ)
    \/ \E u \in Users, pageQ \in { <<>>, <<3>> }, limitQ \in { <<>>, <<7>> } :
          WorldList(u, Undefined, pageQ, limitQ)

SpecPage == InitPage /\ [][NextPage]_vars

\* ---- POST /entries then GET /entries/:entryId, with titles and descriptions that
\* carry surrounding blanks, against World Delete
LongDescription == [i \in 1..(DESCRIPTION_MAX + 1) |-> "b"]

RoundTripTitles == { <<"a">>, <<" ", "a", " ">>, <<"a", " ", "b">>, <<" ">>, Undefined }

RoundTripDescriptions ==
    { Undefined, <<>>, <<" ">>, <<"b">>, <<" ", "b">>, <<"b", " ">>, LongDescription }

NextRoundTrip ==
    \/ \E u \in Users, w \in WorldArgs, type \in TypeInputs, title \in RoundTripTitles,
          description \in RoundTripDescriptions : EntryCreateBegin(u, w, type, title, description)
    \/ \E req \in pending : EntryCreateCommit(req)
    \/ \E u \in Users, w \in WorldArgs : WorldDelete(u, w, 0)

SpecRoundTrip == InitTwoOwners /\ [][NextRoundTrip]_vars

\* ---- every handler but the bulk save, with bodies that fail each validation in turn
\* (title, description) of PATCH bodies: an over-long description behind a valid title,
\* a blank title, a null title, and an accepted body
PatchBodies ==
    { <<<<"b">>, LongDescription>>, <<<<" ">>, <<"c">>>>, <<Null, Undefined>>,
      <<<<"b">>, Undefined>> }

\* (user, world id) of the requests: the owner, a user who is not the owner, a world of
\* another user that becomes soft-deleted, and a world that does not exist
RejectPaths == { <<1, 1>>, <<2, 1>>, <<1, 2>>, <<1, AbsentId>> }

\* the accepted requests are few (one rename, one delete, one create per table) so that
\* the rejected ones are tried in every state they lead to
NextReject ==
    \/ \E u \in Users, title \in {<<"a">>, Undefined} :
          WorldCreate(u, title, LongDescription)
    \/ \E p \in RejectPaths, b \in PatchBodies \ {<<<<"b">>, Undefined>>} :
          WorldUpdate(p[1], p[2], b[1], b[2])
    \/ \E p \in RejectPaths : WorldUpdate(p[1], p[2], <<"a">>, Undefined)
    \/ \E w \in WorldArgs : WorldDelete(2, w, 0)
    \/ \E p \in RejectPaths, type \in TypeInputs, description \in {Undefined, LongDescription} :
          EntryCreateBegin(p[1], p[2], type, <<"a">>, description)
    \/ \E req \in pending : EntryCreateCommit(req)
    \/ \E p \in RejectPaths, e \in {1, AbsentId}, b \in PatchBodies :
          EntryUpdate(p[1], p[2], e, b[1], b[2], MetadataUndefined)
    \/ \E p \in RejectPaths, e \in {2, AbsentId} : EntryDelete(p[1], p[2], e)
    \/ \E p \in RejectPaths, q \in PairInputs, type \in {TypeUndefined, "bogus"} :
          RelCreateBegin(p[1], p[2], q[1], q[2], LabelUndefined, type)
    \/ \E req \in pending : RelCreateCommit(req)
    \/ \E p \in RejectPaths, r \in RelArgs, type \in {"related", "bogus"} :
          RelUpdate(p[1], p[2], r, LabelUndefined, type)
    \/ \E p \in RejectPaths, r \in RelArgs : RelDelete(p[1], p[2], r)
    \/ \E p \in RejectPaths, title \in {<<" ">>, Undefined} : LoreCreate(p[1], p[2], title)
    \/ \E p \in RejectPaths, a \in LoreArgs : LoreUpdate(p[1], p[2], a, <<"a">>)
    \/ \E p \in RejectPaths, a \in LoreArgs : LoreDelete(p[1], p[2], a)
    \/ \E p \in RejectPaths, b \in {<<<<" ">>, <<"a">>>>, <<<<"a">>, <<" ">>>>} :
          TimelineCreate(p[1], p[2], b[1], b[2])
    \/ \E p \in RejectPaths, a \in EventArgs : TimelineUpdate(p[1], p[2], a, <<"a">>, Undefined)
    \/ \E p \in RejectPaths, a \in EventArgs : TimelineDelete(p[1], p[2], a)

SpecReject == InitTwoOwners /\ [][NextReject]_vars

\* ---- PATCH /entries/:entryId with metadata: the lists the sidebar produces from the
\* stored one, and lists a client sends on its own
SidebarEdits(metadata) ==
    { handleFieldChange(metadata, metadata[i].id, "v") : i \in 1..Len(metadata) }
    \cup { handleRemoveField(metadata, metadata[i].id) : i \in 1..Len(metadata) }
    \cup (IF Cardinality({ i \in 1..Len(metadata) : StartsWithCustom(metadata[i].id) })
                < MaxCustomFields
          THEN { handleAddField(metadata, name, now) : name \in {<<"M">>, <<" ">>} }
          ELSE {})

ClientMetadata == { MetadataUndefined, <<>> }

\* the owner edits entry 1 and the entry they create in the sidebar and saves; any
\* client sends a PATCH with a field list of its own
NextMetadata ==
    \/ \E u \in Users, w \in WorldArgs : EntryCreateBegin(u, w, "faction", <<"a">>, Undefined)
    \/ \E req \in pending : EntryCreateCommit(req)
    \/ \E e \in DOMAIN entries \ {2} : \E metadata \in SidebarEdits(entries[e].metadata) :
          EntryUpdate(worlds[entries[e].worldId].ownerId, entries[e].worldId, e,
                      Undefined, Undefined, metadata)
    \/ \E u \in Users, w \in WorldArgs, e \in {1, AbsentId}, metadata \in ClientMetadata :
          EntryUpdate(u, w, e, Undefined, Undefined, metadata)
    \/ Tick

SpecMetadata == InitTwoOwners /\ [][NextMetadata]_vars

\* ---- relationship Create, Update and bulk save with valid, absent and unknown types
RelTypeInputs == { "owns", "bogus", TypeUndefined }

BulkTypeInputs ==
    { <<Descriptor(AbsentId, p[1], p[2], "x", type)>> : p \in PairInputs, type \in RelTypeInputs }
    \cup { <<Descriptor(r, AbsentId, AbsentId, "x", type)>> : r \in DOMAIN rels, type \in RelTypeInputs }

NextRelTypes ==
    \/ \E u \in Users, w \in WorldArgs, p \in PairInputs, type \in RelTypeInputs :
          RelCreateBegin(u, w, p[1], p[2], "x", type)
    \/ \E req \in pending : RelCreateCommit(req)
    \/ \E u \in Users, w \in WorldArgs, r \in RelArgs, type \in RelTypeInputs :
          RelUpdate(u, w, r, LabelUndefined, type)
    \/ \E u \in Users, w \in WorldArgs, relationships \in BulkTypeInputs :
          RelBulk(u, w, relationships, <<>>, <<1>>)
    \/ \E u \in Users, w \in WorldArgs, r \in RelArgs : RelDelete(u, w, r)

SpecRelTypes == InitTwoOwners /\ [][NextRelTypes]_vars

\* ---- POST /relationships/bulk with deletion lists of ids of this World, of another
\* World and of no relationship
DeletedIdLists ==
    { <<>> } \cup { <<r>> : r \in 1..MaxRels } \cup { <<r, q>> : r \in 1..MaxRels, q \in 1..MaxRels }

\* descriptor lists: none, a new pair, or an update by id
BulkDeleteDescriptors ==
    { <<>>, <<Descriptor(AbsentId, 2, 1, "x", "allies")>> }
    \cup { <<Descriptor(r, AbsentId, AbsentId, "x", "allies")>> : r \in DOMAIN rels }

NextBulkDelete ==
    \/ \E u \in Users, w \in WorldArgs, relationships \in BulkDeleteDescriptors,
          deletedIds \in DeletedIdLists :
          \E order \in Orders(Len(relationships)) : RelBulk(u, w, relationships, deletedIds, order)
    \/ \E u \in Users, w \in WorldArgs, r \in RelArgs : RelUpdate(u, w, r, "x", TypeUndefined)

SpecBulkDelete == InitTwoOwners /\ [][NextBulkDelete]_vars

\* ---- auth.routes.ts from a database without accounts
EmailInputs ==
    { <<"a", "@", "m", ".", "x">>, <<" ", "A", "@", "m", ".", "x">>, <<"b", "@", "m", ".", "x">>,
      <<"a", "@", "m">>, <<>> }

PasswordInputs == { [i \in 1..PASSWORD_MIN |-> "p"], [i \in 1..PASSWORD_MIN |-> "q"], <<"p">>, <<>> }

ResetTokenInputs == { <<"t">>, <<"u">> }

InitAuth ==
    /\ worlds = EmptyFn
    /\ entries = EmptyFn
    /\ rels = EmptyFn
    /\ nextRel = 0
    /\ lore = EmptyFn
    /\ events = EmptyFn
    /\ now = 1
    /\ pending = {}
    /\ resp = NoResp
    /\ users = EmptyFn
    /\ editor = MountedEditor

NextAuth ==
    \/ \E email \in EmailInputs, password \in PasswordInputs, displayName \in {<<"a">>, <<>>} :
          Register(email, password, displayName)
    \/ \E email \in EmailInputs, password \in PasswordInputs : Login(email, password)
    \/ \E email \in EmailInputs, resetToken \in ResetTokenInputs : ForgotPassword(email, resetToken)
    \/ \E token \in ResetTokenInputs \cup {<<>>}, newPassword \in PasswordInputs :
          ResetPassword(token, newPassword)
    \/ Tick

SpecAuth == InitAuth /\ [][NextAuth]_vars

\* ---- POST /relationships between Entries that are deleted or created meanwhile
NextRelCreate ==
    \/ \E u \in Users, w \in WorldArgs, sourceId \in EntryArgs, targetId \in EntryArgs,
          type \in {TypeUndefined, "bogus"} :
          RelCreateBegin(u, w, sourceId, targetId, LabelUndefined, type)
    \/ \E req \in pending : RelCreateCommit(req)
    \/ \E u \in Users, w \in WorldArgs, e \in EntryArgs : EntryDelete(u, w, e)
    \/ EntryCreateBegin(2, 2, "custom", <<"a">>, Undefined)
    \/ \E req \in pending : EntryCreateCommit(req)

SpecRelCreate == InitTwoOwners /\ [][NextRelCreate]_vars

\* ---- World Delete and Entry Delete on Worlds that hold relationships, lore and events
NextSoftDelete ==
    \/ \E u \in Users, w \in WorldArgs, tick \in {0, 1} : WorldDelete(u, w, tick)
    \/ \E u \in Users, w \in WorldArgs, e \in EntryArgs : EntryDelete(u, w, e)
    \/ \E u \in Users, w \in WorldArgs, p \in PairInputs :
          RelCreateBegin(u, w, p[1], p[2], LabelUndefined, TypeUndefined)
    \/ \E req \in pending : RelCreateCommit(req)
    \/ \E u \in Users, w \in WorldArgs : LoreCreate(u, w, <<"a">>)
    \/ \E u \in Users, w \in WorldArgs : TimelineCreate(u, w, <<"a">>, <<"a">>)
    \/ Tick

SpecSoftDelete == InitTwoOwners /\ [][NextSoftDelete]_vars

\* ---- the relationship map of user 1 on World 1
NextEditor ==
    \/ \E shared \in BOOLEAN : QueryRefetch(shared)
    \/ onConnect(2, 1)
    \/ \E i \in 1..MaxEdges : handleEdgeClick(i)
    \/ handleDeleteSelected
    \/ handleSaveEdgeEdit("x", "allies")
    \/ handleDiscard
    \/ \E order \in Orders(Len(editor.edges)) : saveMutate(order)
    \/ saveSettled
    \/ Tick

SpecEditor == InitTwoOwners /\ [][NextEditor]_vars

\* ---- updates and deletes of every soft-deletable resource, requests of both users
NextPermanent ==
    \/ \E u \in Users, w \in DOMAIN worlds : WorldUpdate(u, w, <<"b">>, Undefined)
    \/ \E u \in Users, w \in DOMAIN worlds : WorldDelete(u, w, 0)
    \/ \E u \in Users, w \in DOMAIN worlds, e \in DOMAIN entries :
          EntryUpdate(u, w, e, <<"b">>, Undefined, MetadataUndefined)
    \/ \E u \in Users, w \in DOMAIN worlds, e \in DOMAIN entries : EntryDelete(u, w, e)
    \/ \E u \in Users, w \in DOMAIN worlds, a \in DOMAIN lore : LoreUpdate(u, w, a, <<"b">>)
    \/ \E u \in Users, w \in DOMAIN worlds, a \in DOMAIN lore : LoreDelete(u, w, a)
    \/ \E u \in Users, w \in DOMAIN worlds, a \in DOMAIN events :
          TimelineUpdate(u, w, a, <<"b">>, Undefined)
    \/ \E u \in Users, w \in DOMAIN worlds, a \in DOMAIN events : TimelineDelete(u, w, a)
    \/ Tick

SpecPermanent == InitTwoOwners /\ [][NextPermanent]_vars

\* ================================================================== claims
\* the rows of each table that belong to world w
EntriesOf(w) == { e \in DOMAIN entries : entries[e].worldId = w }
RelsOf(w) == { r \in DOMAIN rels : rels[r].worldId = w }
LoreOf(w) == { a \in DOMAIN lore : lore[a].worldId = w }
EventsOf(w) == { a \in DOMAIN events : events[a].worldId = w }

Range(seq) == { seq[i] : i \in 1..Len(seq) }

IsDeletedWorld(w) == w \in DOMAIN worlds /\ worlds[w].deletedAt # NullT

\* query strings tried against the read endpoints
PageArgs == { <<>>, <<1>>, <<2>> }
LimitArgs == { <<>>, <<1>> }
SearchArgs == { Undefined, <<"a">> }
TypeArgs == { "", "character", "custom" }

\* C1: no reachable state has a soft-deleted World that still has an alive Entry
\* (World and Entries become deleted together or not at all).
C1_NoAliveEntryInDeletedWorld ==
    \A e \in DOMAIN entries :
        entries[e].deletedAt = NullT => worlds[entries[e].worldId].deletedAt = NullT

\* every read endpoint addressed to w answers NotFound with no row, and World List
\* does not show w
ReadsAnswerNotFound(w) ==
    \A u \in Users :
        /\ \A q \in SearchArgs, pg \in PageArgs, lim \in LimitArgs :
              /\ w \notin Range(WorldListResp(u, q, pg, lim).items)
              /\ \A type \in TypeArgs :
                    /\ EntryListResp(u, w, type, q, pg, lim).status = NOT_FOUND
                    /\ EntryListResp(u, w, type, q, pg, lim).items = <<>>
              /\ EntrySearchResp(u, w, q).status = NOT_FOUND
              /\ EntrySearchResp(u, w, q).items = <<>>
        /\ WorldGetResp(u, w).status = NOT_FOUND
        /\ \A e \in EntryArgs : EntryGetResp(u, w, e).status = NOT_FOUND
        /\ RelListResp(u, w).status = NOT_FOUND /\ RelListResp(u, w).items = <<>>
        /\ LoreListResp(u, w).status = NOT_FOUND /\ LoreListResp(u, w).items = {}
        /\ \A a \in LoreArgs : LoreGetResp(u, w, a).status = NOT_FOUND
        /\ TimelineListResp(u, w).status = NOT_FOUND /\ TimelineListResp(u, w).items = {}
        /\ \A a \in EventArgs : TimelineGetResp(u, w, a).status = NOT_FOUND

\* no read endpoint, whatever world its path names, returns to user u a row of world w
ReadsReturnNoRowOf(u, w) ==
    \A v \in WorldArgs :
        /\ \A q \in SearchArgs, pg \in PageArgs, lim \in LimitArgs, type \in TypeArgs :
              /\ Range(EntryListResp(u, v, type, q, pg, lim).items) \cap EntriesOf(w) = {}
              /\ Range(EntrySearchResp(u, v, q).items) \cap EntriesOf(w) = {}
        /\ \A e \in EntryArgs : Range(EntryGetResp(u, v, e).items) \cap EntriesOf(w) = {}
        /\ Range(RelListResp(u, v).items) \cap RelsOf(w) = {}
        /\ RelListResp(u, v).included \cap EntriesOf(w) = {}
        /\ LoreListResp(u, v).items \cap LoreOf(w) = {}
        /\ \A a \in LoreArgs : LoreGetResp(u, v, a).items \cap LoreOf(w) = {}
        /\ TimelineListResp(u, v).items \cap EventsOf(w) = {}
        /\ \A a \in EventArgs : TimelineGetResp(u, v, a).items \cap EventsOf(w) = {}

\* C2: once World W has been deleted, in every later state W stays deleted and no read
\* endpoint returns W or anything inside it: World List never contains W, and World
\* Get, Entry List / Get / Search, Relationship List, Lore List / Get and Timeline
\* List / Get addressed to W answer NotFound with no row.
C2_DeletedWorldStaysHidden ==
    /\ [](\A w \in WorldIds :
             IsDeletedWorld(w) =>
                 /\ ReadsAnswerNotFound(w)
                 /\ \A u \in Users : ReadsReturnNoRowOf(u, w))
    /\ [][\A w \in WorldIds : IsDeletedWorld(w) => IsDeletedWorld(w)']_vars

\* C2 witness: a world that holds entries, a relationship, a lore article and a
\* timeline event has just been deleted by its owner
C2_Witness ==
    /\ resp = Resp("WorldDelete", OK, NoBody)
    /\ \E w \in DOMAIN worlds :
          /\ IsDeletedWorld(w)
          /\ EntriesOf(w) # {} /\ RelsOf(w) # {} /\ LoreOf(w) # {} /\ EventsOf(w) # {}

\* the answer the ownership contract prescribes to user u for world id w
GuardAnswer(u, w) ==
    IF ~IsAliveWorld(w) THEN NOT_FOUND
    ELSE IF worlds[w].ownerId # u THEN FORBIDDEN
    ELSE OK

\* the statuses the World-scoped endpoints give user u for world w, on well-formed bodies
EndpointStatuses(u, w) ==
    { WorldGetResp(u, w).status, WorldUpdateStatus(u, w, <<"b">>, Undefined), WorldDeleteStatus(u, w),
      EntryCreateStatus(u, w, "custom", <<"a">>, Undefined),
      EntryListResp(u, w, "", Undefined, <<>>, <<>>).status,
      EntrySearchResp(u, w, <<"a">>).status,
      RelListResp(u, w).status,
      RelBulkStatus(u, w),
      LoreListResp(u, w).status, LoreCreateStatus(u, w, <<"a">>),
      TimelineListResp(u, w).status, TimelineCreateStatus(u, w, <<"a">>, <<"a">>) }
    \cup { EntryGetResp(u, w, e).status : e \in EntryArgs }
    \cup { EntryUpdateStatus(u, w, e, <<"b">>, Undefined) : e \in EntryArgs }
    \cup { EntryDeleteStatus(u, w, e) : e \in EntryArgs }
    \cup { RelCreateStatus(u, w, a, b, "related") : a \in EntryArgs, b \in EntryArgs }
    \cup { RelUpdateStatus(u, w, r, "allies") : r \in RelArgs }
    \cup { RelDeleteStatus(u, w, r) : r \in RelArgs }
    \cup { LoreGetResp(u, w, a).status : a \in LoreArgs }
    \cup { LoreUpdateStatus(u, w, a, <<"b">>) : a \in LoreArgs }
    \cup { LoreDeleteStatus(u, w, a) : a \in LoreArgs }
    \cup { TimelineGetResp(u, w, a).status : a \in EventArgs }
    \cup { TimelineUpdateStatus(u, w, a, <<"b">>, Undefined) : a \in EventArgs }
    \cup { TimelineDeleteStatus(u, w, a) : a \in EventArgs }

\* C3: every World-scoped endpoint answers a user who does not own the world with
\* Forbidden (403) when the world exists and is alive, and with NotFound (404) when it
\* is absent or soft-deleted.
C3_ForbiddenWhenAliveElseNotFound ==
    \A u \in Users, w \in WorldArgs :
        GuardAnswer(u, w) # OK => EndpointStatuses(u, w) = {GuardAnswer(u, w)}

\* the worlds that user u does not own
WorldsOfOthers(u) == { w \in DOMAIN worlds : worlds[w].ownerId # u }

\* this step leaves every row of the worlds user u does not own in place and as it was
RowsOfOthersUntouched(u) ==
    \A w \in WorldsOfOthers(u) :
        /\ worlds'[w] = worlds[w]
        /\ \A e \in EntriesOf(w) : e \in DOMAIN entries' /\ entries'[e] = entries[e]
        /\ \A r \in RelsOf(w) : r \in DOMAIN rels' /\ rels'[r] = rels[r]
        /\ \A a \in LoreOf(w) : a \in DOMAIN lore' /\ lore'[a] = lore[a]
        /\ \A a \in EventsOf(w) : a \in DOMAIN events' /\ events'[a] = events[a]

\* C4: no request of a user returns, modifies, soft-deletes or hard-deletes a row of a
\* World owned by another user, whatever ids the request carries: in every state the
\* reads of user u return no row of the worlds u does not own, and every step that a
\* request of u takes leaves those rows untouched.
C4_OwnershipGuardSuffices ==
    /\ [](\A u \in Users : \A w \in WorldsOfOthers(u) : ReadsReturnNoRowOf(u, w))
    /\ [][\A u \in Users : LoreRequest(u) => RowsOfOthersUntouched(u)]_vars

\* C5: in every reachable state, whatever the interleaving of relationship Create,
\* Update, Delete and BulkSave requests, at most one EntryRelationship row exists for
\* each ordered pair (sourceId, targetId).
C5_OneRowPerOrderedPair ==
    \A r1 \in DOMAIN rels, r2 \in DOMAIN rels :
        (rels[r1].sourceId = rels[r2].sourceId /\ rels[r1].targetId = rels[r2].targetId)
            => r1 = r2

\* C5 witness: of two Creates that had both passed the existence check for one pair,
\* the second insert has been refused, and both directions of the pair are present
C5_Witness ==
    /\ resp = Resp("RelCreate", SERVER_ERROR, NoBody)
    /\ pending = {}
    /\ \E r1 \in DOMAIN rels, r2 \in DOMAIN rels :
          /\ rels[r1].sourceId = rels[r2].targetId
          /\ rels[r1].targetId = rels[r2].sourceId
          /\ r1 # r2

\* the pair (s, t) has a row
HasPair(s, t) == \E r \in DOMAIN rels : rels[r].sourceId = s /\ rels[r].targetId = t

\* C6: a relationship Create for an ordered pair (S, T) that already has a relationship
\* is answered 400 and adds no row, while a Create for the reverse pair (T, S), which
\* has no row, is accepted and its insert adds the row T -> S with status 201.
C6_DuplicateRejectedReverseAccepted ==
    /\ [](\A w \in DOMAIN worlds, s \in DOMAIN entries, t \in DOMAIN entries :
             LET u == worlds[w].ownerId
             IN  /\ (verifyWorldOwnership(w, u) /\ HasPair(s, t))
                       => RelCreateStatus(u, w, s, t, TypeUndefined) = BAD_REQUEST
                 /\ (/\ verifyWorldOwnership(w, u)
                     /\ FindAliveEntry(s, w) /\ FindAliveEntry(t, w)
                     /\ HasPair(s, t) /\ ~HasPair(t, s))
                       => RelCreateStatus(u, w, t, s, TypeUndefined) = OK)
    /\ [][/\ (resp' # resp /\ resp'.op = "RelCreate" /\ resp'.status = BAD_REQUEST)
                => rels' = rels
          /\ \A req \in PendingRelCreates :
                (RelCreateCommit(req) /\ ~HasPair(req.sourceId, req.targetId))
                    => /\ resp'.status = CREATED
                       /\ DOMAIN rels' = DOMAIN rels \cup {resp'.body[1]}
                       /\ resp'.body[1] \notin DOMAIN rels
                       /\ rels'[resp'.body[1]].sourceId = req.sourceId
                       /\ rels'[resp'.body[1]].targetId = req.targetId
                       /\ \A r \in DOMAIN rels : rels'[r] = rels[r]]_vars

\* C6 witness: with S -> T present, the Create of T -> S has just been answered 201
C6_Witness ==
    /\ resp.op = "RelCreate" /\ resp.status = CREATED
    /\ \E r \in DOMAIN rels :
          /\ resp.body = <<r>>
          /\ HasPair(rels[r].targetId, rels[r].sourceId)
          /\ rels[r].sourceId # rels[r].targetId

\* ---- bulk payloads the reconciliation claims range over
\* an id no relationship row ever has
UnknownRelId == 0 - 1

ClaimDescriptors ==
    { Descriptor(r, AbsentId, AbsentId, "x", "allies") : r \in (1..nextRel) \cup {UnknownRelId} }
    \cup { Descriptor(AbsentId, 1, 2, "x", "allies"),
           Descriptor(AbsentId, 1, 2, "y", "enemies"),
           Descriptor(AbsentId, 2, 1, "x", "allies"),
           Descriptor(AbsentId, 2, 1, LabelUndefined, TypeUndefined),
           Descriptor(AbsentId, 1, AbsentId, "x", "allies") }

ClaimPayloads ==
    { [relationships |-> rs, deletedIds |-> ds] :
        rs \in UNION { [1..n -> ClaimDescriptors] : n \in 0..MaxBulk },
        ds \in { <<>> } \cup { <<r>> : r \in 1..nextRel } }

\* the relationship set as the claims compare it: ordered pair, label, type
RelSet(table) ==
    { <<table[r].sourceId, table[r].targetId, table[r].label, table[r].type>> : r \in DOMAIN table }

\* descriptors d and e address the same row of table
SameRow(table, d, e) ==
    IF d.id # AbsentId /\ e.id # AbsentId THEN d.id = e.id
    ELSE IF d.id = AbsentId /\ e.id = AbsentId
    THEN d.sourceId = e.sourceId /\ d.targetId = e.targetId
    ELSE LET c == IF d.id # AbsentId THEN d ELSE e
             l == IF d.id # AbsentId THEN e ELSE d
         IN  /\ c.id \in DOMAIN table
             /\ table[c.id].sourceId = l.sourceId
             /\ table[c.id].targetId = l.targetId

\* no two descriptors of the payload that address the same row differ in label or type
ConflictFree(table, relationships) ==
    \A i \in 1..Len(relationships), j \in 1..Len(relationships) :
        SameRow(table, relationships[i], relationships[j])
            => /\ relationships[i].label = relationships[j].label
               /\ relationships[i].type = relationships[j].type

\* the relationship sets after the payload is submitted once, and twice in a row
OnceSets(w, P) ==
    { RelSet(BulkApply(rels, nextRel, w, P.relationships, P.deletedIds, o).rels) :
        o \in Orders(Len(P.relationships)) }

TwiceSets(w, P) ==
    { RelSet(BulkApply(first.rels, first.nextRel, w, P.relationships, P.deletedIds, o).rels) :
        first \in { BulkApply(rels, nextRel, w, P.relationships, P.deletedIds, o1) :
                      o1 \in Orders(Len(P.relationships)) },
        o \in Orders(Len(P.relationships)) }

\* C7 as stated: for every state and every payload, submitting the payload twice in a
\* row leaves the same relationship set (ordered pair, label, type) as submitting it once.
C7_BulkSaveIdempotent ==
    \A w \in DOMAIN worlds, P \in ClaimPayloads :
        \A once \in OnceSets(w, P), twice \in TwiceSets(w, P) : once = twice

\* C7 amended: for every state and every payload in which no two descriptors that
\* address the same relationship row differ in label or type, submitting the payload
\* twice in a row leaves the same relationship set as submitting it once.
C7_BulkSaveIdempotentWithoutConflicts ==
    \A w \in DOMAIN worlds, P \in ClaimPayloads :
        ConflictFree(rels, P.relationships) =>
            \A once \in OnceSets(w, P), twice \in TwiceSets(w, P) : once = twice

\* C7 witness: a bulk save that deleted a row and wrote its pair again has been answered 200
C7_Witness ==
    /\ resp = Resp("RelBulk", OK, <<1, 1>>)
    /\ 1 \notin DOMAIN rels
    /\ HasPair(1, 2)

\* C8: after a successful BulkSave on World W whose descriptors carry a label and a
\* type and do not conflict, W's relationship set is the prior set minus the rows named
\* in deletedIds, every id-carrying descriptor's row has the submitted label and type,
\* and every id-less descriptor's pair is in W exactly once with the submitted label
\* and type.
C8_BulkSaveReconciles ==
    \A w \in DOMAIN worlds, P \in ClaimPayloads : \A o \in Orders(Len(P.relationships)) :
        LET db == BulkApply(rels, nextRel, w, P.relationships, P.deletedIds, o)
            ds == P.relationships
            after == { r \in DOMAIN db.rels : db.rels[r].worldId = w }
        IN  (/\ verifyWorldOwnership(w, worlds[w].ownerId)
             /\ db.failed = 0
             /\ ConflictFree(rels, ds)
             /\ \A i \in 1..Len(ds) : ds[i].label # LabelUndefined /\ ds[i].type # TypeUndefined)
            =>
            /\ \A r \in RelsOf(w) : r \in after <=> ~Includes(P.deletedIds, r)
            /\ \A i \in 1..Len(ds) :
                  IF ds[i].id # AbsentId
                  THEN /\ db.rels[ds[i].id].label = ds[i].label
                       /\ db.rels[ds[i].id].type = ds[i].type
                  ELSE Cardinality({ r \in after :
                           /\ db.rels[r].sourceId = ds[i].sourceId
                           /\ db.rels[r].targetId = ds[i].targetId
                           /\ db.rels[r].label = ds[i].label
                           /\ db.rels[r].type = ds[i].type }) = 1
            /\ \A r \in after \ RelsOf(w) :
                  \E i \in IdLess(ds) : /\ db.rels[r].sourceId = ds[i].sourceId
                                        /\ db.rels[r].targetId = ds[i].targetId

\* the default field names of each entry type, as the specification lists them
DefaultFieldNames(type) ==
    CASE type = "character" -> <<"Age", "Species", "Status">>
      [] type = "location" -> <<"Region", "Climate", "Population">>
      [] type = "item" -> <<"Rarity", "Origin">>
      [] type = "faction" -> <<"Alignment", "Leader">>
      [] type = "custom" -> <<"Notes">>

EntryTypeNames == { "character", "location", "item", "faction", "custom" }

ClaimLimit(limitQ) ==
    IF limitQ = <<>> \/ limitQ = <<0>> THEN 20
    ELSE IF limitQ[1] > 50 THEN 50
    ELSE IF limitQ[1] < 1 THEN 1
    ELSE limitQ[1]

ClaimPage(pageQ) == IF pageQ = <<>> \/ pageQ[1] < 1 THEN 1 ELSE pageQ[1]

\* a list response has the counts prescribed for N matching rows, limit L and page p
PageCounts(r, N, L, p) ==
    /\ Len(r.items) = Min(L, Max(0, N - (p - 1) * L))
    /\ r.total = N
    /\ r.totalPages * L >= N
    /\ (r.totalPages - 1) * L < N \/ (N = 0 /\ r.totalPages = 0)
    /\ r.totalPages >= 0

\* C10: for Entry List and World List with N matching alive rows, effective limit L
\* (1..50, default 20) and page p >= 1, the response has min(L, max(0, N - (p-1)*L))
\* items, total = N and totalPages = ceil(N / L); with N = 45 and L = 20, page 1 has
\* 20 items, page 3 has 5 items and totalPages = 3.
C10_Pagination ==
    \A pageQ \in PageInputs, limitQ \in LimitInputs :
        /\ \A u \in Users :
              PageCounts(WorldListResp(u, Undefined, pageQ, limitQ),
                         Cardinality({ w \in DOMAIN worlds : worlds[w].ownerId = u /\ IsAliveWorld(w) }),
                         ClaimLimit(limitQ), ClaimPage(pageQ))
        /\ \A w \in DOMAIN worlds :
              LET r == EntryListResp(worlds[w].ownerId, w, "", Undefined, pageQ, limitQ)
                  N == Cardinality({ e \in DOMAIN entries :
                                       entries[e].worldId = w /\ entries[e].deletedAt = NullT })
              IN  IsAliveWorld(w) =>
                    /\ r.status = OK
                    /\ PageCounts(r, N, ClaimLimit(limitQ), ClaimPage(pageQ))
                    /\ (N = 45 /\ limitQ = <<20>> /\ pageQ = <<1>>)
                          => (Len(r.items) = 20 /\ r.totalPages = 3)
                    /\ (N = 45 /\ limitQ = <<20>> /\ pageQ = <<3>>)
                          => (Len(r.items) = 5 /\ r.totalPages = 3)

\* C10 witness: page 3 of 45 alive entries at the default limit has been listed
C10_Witness ==
    /\ resp = Resp("EntryList", OK, <<5, 45, 3, 3>>)
    /\ Cardinality(AliveEntriesOf(1)) = 45

\* ---- Entry Create followed at once by Entry Get
\* t is s without its leading and trailing blanks
IsTrimOf(t, s) ==
    \E i \in 0..Len(s), j \in 0..Len(s) :
        /\ i <= j \/ t = <<>>
        /\ t = SubSeq(s, i + 1, j)
        /\ \A k \in 1..Len(s) : (k <= i \/ k > j) => s[k] = " "
        /\ t # <<>> => (t[1] # " " /\ t[Len(t)] # " ")

\* the Get of the entry a Create has just returned, by the creating user
GetAfterCreate(req) == EntryGetResp(req.user, req.worldId, resp.body[1])

Rejections == { BAD_REQUEST, FORBIDDEN, NOT_FOUND }

\* this step sent a response: it replaced the last response, or it left alone
\* everything a step that sends none advances
Answered == resp' # resp \/ (pending' = pending /\ now' = now)

\* C12: every operation other than the bulk save that answers 400, 403 or 404 leaves
\* every stored row of every table as it was; in particular a PATCH with a valid title
\* and an over-long description is answered 400 and writes nothing.
C12_RejectionWritesNothing ==
    /\ [](\A w \in DOMAIN worlds, e \in DOMAIN entries :
             /\ IsAliveWorld(w) =>
                   WorldUpdateStatus(worlds[w].ownerId, w, <<"b">>, LongDescription) = BAD_REQUEST
             /\ (IsAliveWorld(w) /\ FindAliveEntry(e, w)) =>
                   EntryUpdateStatus(worlds[w].ownerId, w, e, <<"b">>, LongDescription) = BAD_REQUEST)
    /\ [][(Answered /\ resp'.op # "RelBulk" /\ resp'.status \in Rejections)
             => UNCHANGED <<worlds, entries, rels, nextRel, lore, events>>]_vars

\* C12 witness: a PATCH of an entry titled "a" has just been answered 400, in a state
\* where another PATCH has written a title and an entry has been deleted
C12_Witness ==
    /\ resp = Resp("EntryUpdate", BAD_REQUEST, NoBody)
    /\ \E e \in DOMAIN entries : FindAliveEntry(e, 1) /\ entries[e].title = <<"a">>
    /\ \E e \in DOMAIN entries : entries[e].title = <<"b">>
    /\ \E e \in DOMAIN entries : entries[e].deletedAt # NullT

\* ---- bulk saves in which a descriptor fails
\* the database call of descriptor d fails on `table`: an update of an id that has no
\* row, or an insert whose endpoints are not Entry rows
DescriptorFails(table, d) ==
    IF d.id # AbsentId THEN d.id \notin DOMAIN table
    ELSE /\ sourceId_targetId(table, d.sourceId, d.targetId) = {}
         /\ ~(d.sourceId \in DOMAIN entries /\ d.targetId \in DOMAIN entries)

\* C13: when some descriptors of a bulk save by the World's owner fail, the deletions and
\* the other descriptors still take effect and the call is answered 200 with its
\* saved / deleted counts, not with an error.
C13_PartialFailureReportedByCounts ==
    \A w \in DOMAIN worlds, P \in ClaimPayloads : \A o \in Orders(Len(P.relationships)) :
        LET db == BulkApply(rels, nextRel, w, P.relationships, P.deletedIds, o)
            ds == P.relationships
            cut == BulkDelete(rels, w, P.deletedIds)
        IN  (/\ verifyWorldOwnership(w, worlds[w].ownerId)
             /\ \E i \in 1..Len(ds) : DescriptorFails(cut, ds[i]))
            =>
            /\ \A r \in RelsOf(w) : Includes(P.deletedIds, r) => r \notin DOMAIN db.rels
            /\ \A i \in 1..Len(ds) :
                  (ds[i].id = AbsentId /\ ~DescriptorFails(cut, ds[i]))
                      => sourceId_targetId(db.rels, ds[i].sourceId, ds[i].targetId) # {}
            /\ RelBulkResp(db.failed, Len(ds), Len(P.deletedIds)).status = OK

\* C14: the type of an Entry never changes after its creation and is always one of
\* character, location, item, faction, custom: every step of Create, Update and Delete
\* requests keeps every Entry row and its type.
C14_EntryTypeImmutable ==
    /\ [](\A e \in DOMAIN entries : entries[e].type \in EntryTypeNames)
    /\ [][\A e \in DOMAIN entries :
             e \in DOMAIN entries' /\ entries'[e].type = entries[e].type]_vars

\* C14 witness: an entry created as a character has been renamed and then deleted,
\* and is still a character
C14_Witness ==
    /\ resp = Resp("EntryDelete", OK, NoBody)
    /\ \E e \in DOMAIN entries :
          /\ entries[e].type = "character"
          /\ entries[e].title = <<"b">>
          /\ entries[e].deletedAt # NullT

\* the ids of the default fields of an entry type
DefaultFieldIds(type) ==
    CASE type = "character" -> {"age", "species", "status"}
      [] type = "location" -> {"region", "climate", "population"}
      [] type = "item" -> {"rarity", "origin"}
      [] type = "faction" -> {"alignment", "leader"}
      [] type = "custom" -> {"notes"}

\* C15: default metadata fields cannot be deleted: after any sequence of Entry Update
\* requests and of sidebar edits, the metadata of every Entry still holds every default
\* field of the Entry's type.
C15_DefaultFieldsKept ==
    \A e \in DOMAIN entries :
        DefaultFieldIds(entries[e].type)
            \subseteq { entries[e].metadata[i].id : i \in 1..Len(entries[e].metadata) }

\* C16: in every state reachable by relationship Create, Update and bulk save requests,
\* the source Entry and the target Entry of every relationship exist and belong to the
\* World the relationship's worldId names.
C16_EndpointsInRelationshipWorld ==
    \A r \in DOMAIN rels :
        /\ rels[r].sourceId \in DOMAIN entries
        /\ rels[r].targetId \in DOMAIN entries
        /\ entries[rels[r].sourceId].worldId = rels[r].worldId
        /\ entries[rels[r].targetId].worldId = rels[r].worldId

\* the ten relationship types of the specification
RelationshipTypeNames ==
    { "related", "parent", "child", "allies", "enemies", "located_in", "belongs_to",
      "owns", "created", "member_of" }

\* C17: in every state reachable by relationship Create, Update and bulk save requests,
\* the type of every relationship is one of the ten enumerated values.
C17_RelationshipTypeEnumerated ==
    \A r \in DOMAIN rels : rels[r].type \in RelationshipTypeNames

\* ---- account enumeration
\* an account is registered under this email
IsRegistered(email) == \E id \in DOMAIN users : users[id].email = normalizeEmail(email)

\* the password is not the one of the account registered under this email
IsWrongPassword(email, password) ==
    \E id \in DOMAIN users :
        /\ users[id].email = normalizeEmail(email)
        /\ users[id].passwordHash # hashPassword(password)

Addressed(relationships, r) ==
    \E i \in 1..Len(relationships) :
        \/ relationships[i].id = r
        \/ /\ relationships[i].id = AbsentId
           /\ relationships[i].sourceId = rels[r].sourceId
           /\ relationships[i].targetId = rels[r].targetId

\* C19: a bulk save on World w removes exactly the relationships whose id is in
\* deletedIds and whose worldId is w; an id in deletedIds of another World's relationship
\* or of no relationship raises no error and the deletion leaves such a row as it was.
C19_BulkDeletesExactlyScopedIds ==
    [][\A u \in Users, w \in WorldArgs, relationships \in BulkDeleteDescriptors,
          deletedIds \in DeletedIdLists :
          \A order \in Orders(Len(relationships)) :
          (RelBulkStatus(u, w) = OK /\ RelBulk(u, w, relationships, deletedIds, order))
          => LET gone == { r \in DOMAIN rels : Includes(deletedIds, r) /\ rels[r].worldId = w }
             IN  /\ DOMAIN rels' \cap DOMAIN rels = DOMAIN rels \ gone
                 /\ \A r \in DOMAIN rels \ gone :
                       (Includes(deletedIds, r) /\ ~Addressed(relationships, r)) => rels'[r] = rels[r]
                 /\ relationships = <<>> => resp'.status = OK]_vars

\* C19 witness: a bulk save with two deleted ids and no descriptor has been answered, a
\* relationship was removed and a relationship of World 2 is still stored
C19_Witness ==
    /\ resp = Resp("RelBulk", OK, <<0, 2>>)
    /\ nextRel > Cardinality(DOMAIN rels)
    /\ \E r \in DOMAIN rels : rels[r].worldId = 2


\* ---- the counts of a bulk save
\* C20: a bulk save answered 200 reports as `deleted` the number of relationship rows it
\* removed and as `saved` the number of relationship rows it created or updated.
C20_BulkCountsAccurate ==
    [][(resp' # resp /\ resp'.op = "RelBulk" /\ resp'.status = OK)
          => /\ resp'.body[2] = Cardinality(DOMAIN rels \ DOMAIN rels')
             /\ resp'.body[1] >= Cardinality(DOMAIN rels' \ DOMAIN rels)
             /\ resp'.body[1] <= Cardinality(DOMAIN rels' \ DOMAIN rels)
                                   + Cardinality(DOMAIN rels \cap DOMAIN rels')]_vars


\* ---- the endpoints of a relationship Create
\* the id names a stored Entry of World w that is not soft-deleted
IsAliveEntryOf(e, w) ==
    e \in DOMAIN entries /\ entries[e].worldId = w /\ entries[e].deletedAt = NullT

\* C21: for the owner of World w, a relationship Create whose sourceId or targetId is
\* not an alive Entry of w (no such Entry, a soft-deleted one, or one of another World)
\* is answered 400 and stores nothing; a Create goes on to its insert only when both
\* endpoints were alive Entries of w when the handler looked them up, and every row
\* inserted is the row of such a request.
C21_CreateNeedsAliveEndpointsInWorld ==
    /\ [](\A u \in Users, w \in WorldArgs, sourceId \in EntryArgs, targetId \in EntryArgs,
             type \in {TypeUndefined, "bogus"} :
             (verifyWorldOwnership(w, u)
                /\ ~(IsAliveEntryOf(sourceId, w) /\ IsAliveEntryOf(targetId, w)))
             => RelCreateStatus(u, w, sourceId, targetId, type) = BAD_REQUEST)
    /\ [][/\ (resp' # resp /\ resp'.op = "RelCreate" /\ resp'.status = BAD_REQUEST)
                => UNCHANGED <<rels, nextRel, pending>>
          /\ \A req \in pending' \ pending :
                req.op = "RelCreate"
                => /\ IsAliveEntryOf(req.sourceId, req.worldId)
                   /\ IsAliveEntryOf(req.targetId, req.worldId)
          /\ \A r \in DOMAIN rels' \ DOMAIN rels :
                \E req \in pending \ pending' :
                   /\ req.op = "RelCreate"
                   /\ rels'[r].sourceId = req.sourceId
                   /\ rels'[r].targetId = req.targetId
                   /\ rels'[r].worldId = req.worldId]_vars

\* C21 witness: a Create has just been refused with 400 while an Entry is soft-deleted,
\* World 2 has an Entry of its own, and a relationship of World 2 has been stored
C21_Witness ==
    /\ resp = Resp("RelCreate", BAD_REQUEST, NoBody)
    /\ \E e \in DOMAIN entries : entries[e].deletedAt # NullT
    /\ \E e \in DOMAIN entries : entries[e].worldId = 2
    /\ \E r \in DOMAIN rels : rels[r].worldId = 2


\* ---- the timestamps of the World Delete cascade
\* the step is an accepted World Delete of World w
IsWorldDeleteOf(w) ==
    /\ resp'.op = "WorldDelete" /\ resp'.status = OK
    /\ w \in DOMAIN worlds
    /\ worlds'[w].deletedAt # worlds[w].deletedAt

\* C22: a World Delete stamps the Entries of the World that are alive at that moment
\* and leaves the deletedAt of an Entry that was soft-deleted before as it was.
C22_CascadeStampsAliveEntriesOnly ==
    [][\A w \in DOMAIN worlds : IsWorldDeleteOf(w)
          => \A e \in DOMAIN entries :
                entries[e].worldId = w
                => IF entries[e].deletedAt = NullT
                   THEN entries'[e].deletedAt # NullT
                   ELSE entries'[e].deletedAt = entries[e].deletedAt]_vars

\* C23: after a World Delete the World and every Entry soft-deleted by its cascade carry
\* the same timestamp.
C23_CascadeSharesOneTimestamp ==
    [][\A w \in DOMAIN worlds : IsWorldDeleteOf(w)
          => \A e \in DOMAIN entries :
                (entries[e].worldId = w /\ entries[e].deletedAt = NullT)
                => entries'[e].deletedAt = worlds'[w].deletedAt]_vars


\* ---- what a soft delete leaves alone
\* a World or an Entry is soft-deleted by the step
SoftDeletesWorld == \E w \in DOMAIN worlds : worlds[w].deletedAt = NullT /\ worlds'[w].deletedAt # NullT
SoftDeletesEntry == \E e \in DOMAIN entries : entries[e].deletedAt = NullT /\ entries'[e].deletedAt # NullT

\* C24: a World Delete leaves every relationship, lore article and timeline event row
\* unchanged, an Entry Delete leaves every relationship row unchanged, and a relationship
\* whose source or target is a soft-deleted Entry is still returned by Relationship List.
C24_SoftDeleteStopsAtEntries ==
    /\ [][/\ SoftDeletesWorld => UNCHANGED <<rels, nextRel, lore, events>>
          /\ SoftDeletesEntry => UNCHANGED <<rels, nextRel>>]_vars
    /\ [](\A r \in DOMAIN rels :
             IsAliveWorld(rels[r].worldId)
             => /\ Includes(RelListResp(worlds[rels[r].worldId].ownerId, rels[r].worldId).items, r)
                /\ RelListResp(worlds[rels[r].worldId].ownerId, rels[r].worldId).status = OK)

\* C24 witness: Entry 1, the source of relationship 1, has just been soft-deleted in the
\* alive World 1, and World 2 has been soft-deleted while it holds a lore article
C24_Witness ==
    /\ resp = Resp("EntryDelete", OK, NoBody)
    /\ entries[1].deletedAt # NullT
    /\ 1 \in DOMAIN rels /\ rels[1].sourceId = 1
    /\ IsAliveWorld(1)
    /\ worlds[2].deletedAt # NullT
    /\ \E a \in DOMAIN lore : lore[a].worldId = 2


\* ---- lore and timeline validation
\* the text is stored trimmed and is not empty
IsTrimmedNonEmpty(text) == Len(text) > 0 /\ Head(text) # " " /\ text[Len(text)] # " "

\* C25: every stored lore article and timeline event has a trimmed, non-empty title and
\* every timeline event a non-empty date.
C25_LoreAndTimelineTitlesNonEmpty ==
    /\ \A a \in DOMAIN lore : IsTrimmedNonEmpty(lore[a].title)
    /\ \A a \in DOMAIN events : IsTrimmedNonEmpty(events[a].title) /\ Len(events[a].date) > 0

\* C26: a Lore Delete or Timeline Delete on World w by its owner with an id that is not
\* an alive row of w is answered 404 and changes no row; with the id of an alive row of
\* w it is answered 200 and stamps the deletion time of that row only.
C26_DeleteOfMissingRowNotFound ==
    [][\A u \in Users, w \in WorldArgs :
          /\ \A a \in EventArgs :
                (TimelineWorldCheck(w, u) /\ TimelineDelete(u, w, a))
                => IF a \in DOMAIN events /\ events[a].worldId = w /\ events[a].deletedAt = NullT
                   THEN resp'.status = OK /\ events' = [events EXCEPT ![a].deletedAt = now]
                   ELSE resp'.status = NOT_FOUND /\ events' = events
          /\ \A a \in LoreArgs :
                (LoreWorldCheck(w, u) /\ LoreDelete(u, w, a))
                => IF a \in DOMAIN lore /\ lore[a].worldId = w /\ lore[a].deletedAt = NullT
                   THEN resp'.status = OK /\ lore' = [lore EXCEPT ![a].deletedAt = now]
                   ELSE resp'.status = NOT_FOUND /\ lore' = lore]_vars


\* ---- the scope of a bulk save's updates
\* C27: a bulk save on World w changes label and type only of relationships whose
\* worldId is w.
C27_BulkUpdatesOnlyItsWorld ==
    [][\A u \in Users, w \in WorldArgs, relationships \in BulkRelationshipInputs,
          deletedIds \in DeletedIdInputs :
          \A order \in Orders(Len(relationships)) :
             (RelBulkStatus(u, w) = OK /\ RelBulk(u, w, relationships, deletedIds, order))
             => \A r \in DOMAIN rels : rels[r].worldId # w => (r \in DOMAIN rels' /\ rels'[r] = rels[r])]_vars


\* ---- the completion order of a bulk save's calls
\* what a bulk save leaves and answers: the rows without their ids, and whether it failed
Outcome(db) ==
    <<{ <<db.rels[r].sourceId, db.rels[r].targetId, db.rels[r].worldId, db.rels[r].label,
          db.rels[r].type>> : r \in DOMAIN db.rels },
      db.failed > 0>>

Outcomes(w, P) ==
    { Outcome(BulkApply(rels, nextRel, w, P.relationships, P.deletedIds, o)) :
        o \in Orders(Len(P.relationships)) }

\* C28 as stated: the relationship set a bulk save leaves and its response are the same
\* for every order in which its calls complete, for every payload.
C28_BulkOutcomeOrderIndependent ==
    \A w \in DOMAIN worlds, P \in ClaimPayloads : Cardinality(Outcomes(w, P)) = 1

\* C28 amended: the relationship set a bulk save leaves and its response are the same
\* for every order in which its calls complete, for every payload in which no two
\* descriptors that address the same row or the same ordered pair differ in label or type.
C28_BulkOutcomeOrderIndependentWithoutConflicts ==
    \A w \in DOMAIN worlds, P \in ClaimPayloads :
        ConflictFree(rels, P.relationships) => Cardinality(Outcomes(w, P)) = 1

\* C28 witness: a bulk save of two descriptors has been answered 200 and both
\* directions of the pair are stored
C28_Witness ==
    /\ resp = Resp("RelBulk", OK, <<2, 0>>)
    /\ HasPair(1, 2) /\ HasPair(2, 1)


\* ---- the relationship map's pending deletions
\* C29: no edge of the editor's edge list carries a dbId that is in the pending
\* deletedIds list, so no bulk payload built from the editor deletes and updates one
\* relationship.
C29_NoEdgeIsPendingDeletion ==
    \A i \in 1..Len(editor.edges) :
        editor.edges[i].dbId # AbsentId => ~Includes(editor.deletedIds, editor.edges[i].dbId)


\* ---- permanence of soft deletion
\* the row of the table is soft-deleted
IsSoftDeleted(table, id) == id \in DOMAIN table /\ table[id].deletedAt # NullT

\* the soft-deleted rows of the table
SoftDeleted(table) == { id \in DOMAIN table : table[id].deletedAt # NullT }

\* C30: a World, Entry, lore article or timeline event that is soft-deleted stays so in
\* every later state, an Update addressed to a soft-deleted World or Entry is not
\* answered 200, and no answered World or Entry Update changes a soft-deleted World or
\* Entry row.
C30_SoftDeleteIsPermanent ==
    /\ [][/\ \A w \in SoftDeleted(worlds) : IsSoftDeleted(worlds', w)
          /\ \A e \in SoftDeleted(entries) : IsSoftDeleted(entries', e)
          /\ \A a \in SoftDeleted(lore) : IsSoftDeleted(lore', a)
          /\ \A a \in SoftDeleted(events) : IsSoftDeleted(events', a)
          /\ resp'.op \in {"WorldUpdate", "EntryUpdate"}
                => /\ \A w \in SoftDeleted(worlds) : worlds'[w] = worlds[w]
                   /\ \A e \in SoftDeleted(entries) : entries'[e] = entries[e]]_vars
    /\ [](\A u \in Users :
             /\ \A w \in SoftDeleted(worlds) : WorldUpdateStatus(u, w, <<"b">>, Undefined) # OK
             /\ \A w \in DOMAIN worlds, e \in DOMAIN entries :
                   (IsSoftDeleted(entries, e) \/ IsSoftDeleted(worlds, w))
                   => EntryUpdateStatus(u, w, e, <<"b">>, Undefined) # OK)

\* C30 witness: an Update of the soft-deleted Entry 1 in the alive World 1 has just been
\* answered 404 while World 2, a lore article and a timeline event are soft-deleted
C30_Witness ==
    /\ resp = Resp("EntryUpdate", NOT_FOUND, NoBody)
    /\ IsAliveWorld(1) /\ IsSoftDeleted(worlds, 2)
    /\ \A e \in DOMAIN entries : IsSoftDeleted(entries, e)
    /\ SoftDeleted(lore) # {} /\ SoftDeleted(events) # {}
    /\ entries[1].title = <<"a">>

====
